---- MODULE Spec2Model ----
(***************************************************************************)
(* Basketball tactics board: the spatial simulation core.                  *)
(*                                                                         *)
(*   - playerUtils.ts : getPlayerRadius, getZoneName,                      *)
(*                      calculateGhostDefender, resolveCollisions          *)
(*   - TacticsBoard.tsx : the frame list, the playback scheduler (the      *)
(*                      animation-loop effect and its requestAnimation-    *)
(*                      Frame callback), the sync effect, the playback     *)
(*                      handlers, getPointOnSpline and getRenderEntities   *)
(*                                                                         *)
(* Numbers.  Court coordinates and lengths are fixed-point integers with   *)
(* FP units per court unit (pixel); shooting percentages are integer       *)
(* percents; the animation progress and interpolation parameters are       *)
(* integer hundredths (ONE = 1.0).  Math.sqrt is the integer square root;  *)
(* comparisons of a distance against a threshold are made on the squares,  *)
(* so they are exact on the grid.                                          *)
(***************************************************************************)
EXTENDS Integers, Sequences, FiniteSets, TLC

VARIABLES
    \* React state of TacticsBoard
    frames,            \* the frame list: a sequence of [entitiesMap, actionsMap]
    currentFrameIndex, \* 0-based index into frames
    isPlaying,
    playbackSpeed,     \* percent: 100 = 1x
    animationProgress, \* hundredths: 0 .. ONE
    isAnimationMode,
    entitiesMap,       \* live entities of the current view mode
    actionsMap,        \* live actions of the current view mode
    viewMode,          \* "full" | "half"
    \* refs and the host's animation-frame queue
    isSwitchingFrame,  \* isSwitchingFrame.current
    animationRef,      \* animationRef.current: id of the last requested callback, 0 = none
    rafQueue,          \* requested, not yet fired or cancelled animation callbacks
    pendingEffects,    \* passive effects of the last commit that have not run yet
    \* environment
    step,              \* name of the last step taken
    userPresent,       \* FALSE once the user no longer touches the controls
    \* playerUtils
    ghostResult,       \* player id -> result of calculateGhostDefender, per attacker
    \* rendering
    showGhostDefense,  \* the ghost defence overlay is switched on
    render,            \* the locals of the render in progress, see NoRender
    \* a single call of one of the pure functions
    call               \* [fn, args, out, done], see NoCall

reactVars == <<frames, currentFrameIndex, isPlaying, playbackSpeed, animationProgress,
               isAnimationMode, entitiesMap, actionsMap>>
schedVars == <<isSwitchingFrame, animationRef, rafQueue, pendingEffects>>
vars == <<reactVars, schedVars, viewMode, step, userPresent, ghostResult,
          showGhostDefense, render, call>>

----------------------------------------------------------------------------
(* Arithmetic *)

FP == 10            \* fixed-point units per court unit
ONE == 100          \* 1.0 of a normalised parameter (progress, t)
TS == 256           \* resolution of the projection parameter in distToSegmentSq

Abs(x) == IF x < 0 THEN -x ELSE x
Min(a, b) == IF a < b THEN a ELSE b
Max(a, b) == IF a > b THEN a ELSE b

\* a / b rounded to the nearest integer, b > 0
RDiv(a, b) == (2 * a + b) \div (2 * b)

RECURSIVE ISqrt(_)
ISqrt(n) ==
    IF n < 2 THEN n
    ELSE LET s == 2 * ISqrt(n \div 4)
         IN  IF (s + 1) * (s + 1) <= n THEN s + 1 ELSE s

Pos(x, y) == [x |-> x, y |-> y]
DistSq(a, b) == (a.x - b.x) * (a.x - b.x) + (a.y - b.y) * (a.y - b.y)
Dist(a, b) == ISqrt(DistSq(a, b))

\* left fold of a sequence
RECURSIVE FoldSeq(_, _, _, _)
FoldSeq(Op(_, _), acc, s, i) ==
    IF i > Len(s) THEN acc ELSE FoldSeq(Op, Op(acc, s[i]), s, i + 1)

----------------------------------------------------------------------------
(* utils/constants.ts is not part of the sources at hand: the court        *)
(* dimensions are those of a 28 m x 15 m court at 25 units per metre.      *)

SCALE == 25
COURT_WIDTH == 700
COURT_HEIGHT == 375

----------------------------------------------------------------------------
(* types/index.ts.  Every board entity is a record with the same fields:   *)
(*   id, type ("player" | "ball"), team (NoId for the ball), position,     *)
(*   rotation, hasRotation, ownerId (ball: the holder's id, or NoId),      *)
(*   profile.                                                              *)
(* profile = [hasStats, height, weight, hotZones]:                         *)
(*   hasStats  whether profile?.stats exists,                              *)
(*   height    the parseInt results of height.split("'"), <<>> if absent,  *)
(*   weight    parseInt(weight), NaN if unparsable, 0 if absent,           *)
(*   hotZones  a sequence of [key, pct] entries (pct in percent).          *)

NoId == ""
NaN == -1

NoProfile == [hasStats |-> FALSE, height |-> <<>>, weight |-> 0, hotZones |-> <<>>]

\* The locals of getRenderEntities between two of its steps.
\*   pc                where the render is: "idle" (none in progress), "ghosts",
\*                     "resolve", "ball", "overlay", "done"
\*   renderedEntities  [ent, alias] per rendered entity, see RenderedEntity
\*   ghostObstacles    the obstacles handed to resolveCollisions
\*   pass, k           the collision pass and the player it has come to
\* and, for the record of what happened in this render,
\*   before            the frame list when the render began
\*   raw               the rendered entities as interpolated, before any correction
\*   estimatorInputs   every player list calculateGhostDefender was called with
\*   estimatorCalls    the attackers calculateGhostDefender was called for, in order
\*   obstaclesUsed     every obstacle list resolveCollisions was called with
\*   passes            completed collision passes
\*   renders           renders completed so far
NoRender ==
    [pc |-> "idle", renderedEntities |-> <<>>, ghostObstacles |-> <<>>, pass |-> 0,
     k |-> 0, before |-> <<>>, raw |-> <<>>, estimatorInputs |-> {},
     estimatorCalls |-> <<>>, obstaclesUsed |-> {}, passes |-> 0, renders |-> 0]

\* A call of a pure function: its name, its arguments, and once it has returned
\* (done) its results.
NoCall == [fn |-> "none", args |-> <<>>, out |-> <<>>, done |-> FALSE]

PlayerEntity(id, pos, rot, profile) ==
    [id |-> id, type |-> "player", team |-> "red", position |-> pos, rotation |-> rot,
     hasRotation |-> TRUE, ownerId |-> NoId, profile |-> profile]

BallEntity(id, pos, owner) ==
    [id |-> id, type |-> "ball", team |-> NoId, position |-> pos, rotation |-> 0,
     hasRotation |-> FALSE, ownerId |-> owner, profile |-> NoProfile]

----------------------------------------------------------------------------
(* playerUtils.ts: getPlayerRadius *)

baseRadius == 14

HeightBonus(height) ==
    IF Len(height) # 2 THEN 0
    ELSE IF height[1] = NaN \/ height[2] = NaN THEN 0
    ELSE LET totalInches == height[1] * 12 + height[2]
         IN  IF totalInches > 72 THEN RDiv((totalInches - 72) * 3 * FP, 10) ELSE 0

WeightBonus(weight) ==
    IF weight = NaN THEN 0
    ELSE IF weight > 180 THEN RDiv((weight - 180) * 5 * FP, 100) ELSE 0

\* getPlayerRadius without the cap on the bonus
getPlayerRadiusUncapped(player) ==
    IF ~player.profile.hasStats THEN baseRadius * FP
    ELSE baseRadius * FP + HeightBonus(player.profile.height)
             + WeightBonus(player.profile.weight)

getPlayerRadius(player) ==
    IF ~player.profile.hasStats THEN baseRadius * FP
    ELSE LET bonus == HeightBonus(player.profile.height)
                      + WeightBonus(player.profile.weight)
         IN  Min((baseRadius + 8) * FP, baseRadius * FP + bonus)

----------------------------------------------------------------------------
(* playerUtils.ts: getZoneName *)

\* distPixels / SCALE compared with m / 100 metres, on the squares: with d2 the
\* squared distance in FP units, 2 * dist is compared with m * (2 * SCALE * FP / 100)
CmToHalfUnits(m) == (m * 2 * SCALE * FP) \div 100
MetersLT(d2, m) == 4 * d2 < CmToHalfUnits(m) * CmToHalfUnits(m)
MetersGT(d2, m) == 4 * d2 > CmToHalfUnits(m) * CmToHalfUnits(m)

\* getZoneName with a corner check that does not look at the lateral offset
getZoneNameNoLateralTest(pos, basketPos, vm) ==
    LET d2 == DistSq(pos, basketPos)
        isCorner == MetersGT(d2, 670) /\ MetersLT(d2, 850)
    IN  IF MetersLT(d2, 125) THEN "Restricted Area"
        ELSE IF MetersLT(d2, 475) THEN "In The Paint (Non-RA)"
        ELSE IF isCorner
             THEN (IF pos.x < basketPos.x THEN "Left Corner 3" ELSE "Right Corner 3")
        ELSE IF MetersLT(d2, 724) THEN "Mid-Range"
        ELSE "Above the Break 3"

getZoneName(pos, basketPos, vm) ==
    LET d2 == DistSq(pos, basketPos)
        lateral == IF vm = "half"
                   THEN 10 * Abs(pos.x - basketPos.x) > ((COURT_WIDTH * FP) \div 2) * 8
                   ELSE 10 * Abs(pos.y - basketPos.y) > ((COURT_HEIGHT * FP) \div 2) * 8
        isCorner == MetersGT(d2, 670) /\ MetersLT(d2, 850) /\ lateral
    IN  IF MetersLT(d2, 125) THEN "Restricted Area"
        ELSE IF MetersLT(d2, 475) THEN "In The Paint (Non-RA)"
        ELSE IF isCorner
             THEN (IF MetersGT(d2, 670)
                   THEN (IF pos.x < basketPos.x THEN "Left Corner 3" ELSE "Right Corner 3")
                   ELSE "Mid-Range")
        ELSE IF MetersLT(d2, 724) THEN "Mid-Range"
        ELSE "Above the Break 3"

----------------------------------------------------------------------------
(* playerUtils.ts: calculateGhostDefender *)

ghostRadius == 14
RIM_PROTECTION_BUFFER == 15
LeagueAveragePct == 35

BASKET_POS(vm) ==
    IF vm = "half"
    THEN Pos((COURT_WIDTH * FP) \div 2, 35 * FP)
    ELSE Pos(40 * FP, (COURT_HEIGHT * FP) \div 2)

\* Object.keys(zones).find(k => k.includes(zoneName)): the modelled keys are zone
\* names, and no zone name is a substring of another
HotZoneMatches(hotZones, zoneName) ==
    {i \in 1..Len(hotZones) : hotZones[i].key = zoneName}

ShootingPct(attacker, zoneName) ==
    LET m == IF attacker.profile.hasStats
             THEN HotZoneMatches(attacker.profile.hotZones, zoneName)
             ELSE {}
    IN  IF m = {}
        THEN [pct |-> LeagueAveragePct, isRealData |-> FALSE]
        ELSE LET i == CHOOSE k \in m : \A j \in m : k <= j
             IN  [pct |-> attacker.profile.hotZones[i].pct, isRealData |-> TRUE]

ZoneAverage(zoneName) ==
    IF zoneName = "Restricted Area" THEN 60
    ELSE IF zoneName = "In The Paint (Non-RA)" THEN 50
    ELSE IF zoneName = "Mid-Range" THEN 40
    ELSE 35

\* the on-ball gap with the sign of the shooting difference turned round
OnBallGapWiderForShooters(pct, zoneName, maxDist) ==
    LET gap == 45 * FP + (pct - ZoneAverage(zoneName)) * 3 * FP
        clamped == Max(30 * FP, Min(gap, 150 * FP))
    IN  Min(clamped, maxDist)

\* gap = 45 - diff * 300 with diff = (pct - avgPct) / 100
OnBallGap(pct, zoneName, maxDist) ==
    LET gap == 45 * FP - (pct - ZoneAverage(zoneName)) * 3 * FP
        clamped == Max(30 * FP, Min(gap, 150 * FP))
    IN  Min(clamped, maxDist)

\* the sag distance without the rim-protection clamp
OffBallGapNoRimClamp(attackerPos, ballPos, pct, maxDist) ==
    LET d2 == DistSq(attackerPos, ballPos)
        sag == IF d2 > (300 * FP) * (300 * FP) THEN 120 * FP
               ELSE IF d2 > (150 * FP) * (150 * FP) THEN 80 * FP
               ELSE 60 * FP
    IN  IF pct > 40 THEN RDiv(sag * 7, 10) ELSE sag

OffBallGap(attackerPos, ballPos, pct, maxDist) ==
    LET d2 == DistSq(attackerPos, ballPos)
        sag == IF d2 > (300 * FP) * (300 * FP) THEN 120 * FP
               ELSE IF d2 > (150 * FP) * (150 * FP) THEN 80 * FP
               ELSE 60 * FP
        sagDistance == IF pct > 40 THEN RDiv(sag * 7, 10) ELSE sag
    IN  Min(sagDistance, maxDist)

distToSegmentSq(p, v, w) ==
    LET l2 == DistSq(v, w)
        dot == (p.x - v.x) * (w.x - v.x) + (p.y - v.y) * (w.y - v.y)
        t == IF dot <= 0 THEN 0
             ELSE IF dot >= l2 THEN TS
             ELSE RDiv(dot * TS, l2)
        proj == Pos(v.x + RDiv(t * (w.x - v.x), TS), v.y + RDiv(t * (w.y - v.y), TS))
    IN  IF l2 = 0 THEN DistSq(p, v) ELSE DistSq(p, proj)

\* the direct-overlap check alone, with no path-obstruction check
ScreenStepDirectOnly(attacker, acc, other) ==
    IF other.id = attacker.id THEN acc
    ELSE
    LET minDist == ghostRadius * FP + getPlayerRadius(other)
        dx == acc.position.x - other.position.x
        dy == acc.position.y - other.position.y
        d2 == dx * dx + dy * dy
        dist == ISqrt(d2)
        overlap == minDist - dist
    IN  IF d2 < minDist * minDist /\ d2 > 0
        THEN [position |-> Pos(acc.position.x + RDiv(dx * overlap, dist),
                               acc.position.y + RDiv(dy * overlap, dist)),
              isScreened |-> TRUE,
              screenDisplacement |-> acc.screenDisplacement + overlap]
        ELSE acc

\* One iteration of allPlayers.forEach: acc = [position, isScreened, screenDisplacement]
\* are the closure variables ghostPos, isScreened, screenDisplacement.
ScreenStep(attacker, acc, other) ==
    IF other.id = attacker.id THEN acc
    ELSE
    LET minDist == ghostRadius * FP + getPlayerRadius(other)
        dx == acc.position.x - other.position.x
        dy == acc.position.y - other.position.y
        d2 == dx * dx + dy * dy
        dist == ISqrt(d2)
        direct == d2 < minDist * minDist /\ d2 > 0
        overlap == minDist - dist
        a1 == IF direct
              THEN [position |-> Pos(acc.position.x + RDiv(dx * overlap, dist),
                                     acc.position.y + RDiv(dy * overlap, dist)),
                    isScreened |-> TRUE,
                    screenDisplacement |-> acc.screenDisplacement + overlap]
              ELSE acc
        segSq == distToSegmentSq(other.position, a1.position, attacker.position)
    IN  IF ~a1.isScreened /\ segSq < minDist * minDist
        THEN [a1 EXCEPT !.isScreened = TRUE,
                        !.screenDisplacement = @ + (minDist - ISqrt(segSq))]
        ELSE a1

\* ball is a ball entity, or NoBall when there is none (ball === undefined)
NoBall == BallEntity(NoId, Pos(0, 0), NoId)

calculateGhostDefender(attacker, ball, vm, allPlayers) ==
    LET basket == BASKET_POS(vm)
        attackerPos == attacker.position
        vecToBasket == Pos(basket.x - attackerPos.x, basket.y - attackerPos.y)
        distToBasket == Dist(basket, attackerPos)
        divisor == IF distToBasket = 0 THEN 1 ELSE distToBasket
        maxDist == Max(0, distToBasket - RIM_PROTECTION_BUFFER * FP)
        zoneName == getZoneName(attackerPos, basket, vm)
        sp == ShootingPct(attacker, zoneName)
        hasBall == ball # NoBall /\ ball.ownerId = attacker.id
        ballPos == IF ball # NoBall THEN ball.position ELSE Pos(0, 0)
        gap == IF hasBall
               THEN OnBallGap(sp.pct, zoneName, maxDist)
               ELSE OffBallGap(attackerPos, ballPos, sp.pct, maxDist)
        ghostPos == Pos(attackerPos.x + RDiv(vecToBasket.x * gap, divisor),
                        attackerPos.y + RDiv(vecToBasket.y * gap, divisor))
        out == FoldSeq(LAMBDA acc, other : ScreenStep(attacker, acc, other),
                       [position |-> ghostPos, isScreened |-> FALSE,
                        screenDisplacement |-> 0],
                       allPlayers, 1)
    IN  [position |-> out.position, radius |-> ghostRadius * FP, gap |-> gap,
         isRealData |-> sp.isRealData, pct |-> sp.pct,
         isScreened |-> out.isScreened,
         screenDisplacement |-> out.screenDisplacement]

----------------------------------------------------------------------------
(* playerUtils.ts: resolveCollisions *)

\* PushOut that keeps a margin of one court unit around the body
PushOutWithMargin(activeRadius, c, body) ==
    LET minDist == activeRadius + body.radius + FP
        dx == c.x - body.position.x
        dy == c.y - body.position.y
        d2 == dx * dx + dy * dy
        dist == ISqrt(d2)
        overlap == minDist - dist
    IN  IF d2 < minDist * minDist /\ d2 > 0 /\ dist > 0
        THEN Pos(c.x + RDiv(dx * overlap, dist), c.y + RDiv(dy * overlap, dist))
        ELSE c

\* PushOut without the dist > 0 test: a coinciding centre is pushed along x
PushOutAtZeroDistance(activeRadius, c, body) ==
    LET minDist == activeRadius + body.radius
        dx == c.x - body.position.x
        dy == c.y - body.position.y
        d2 == dx * dx + dy * dy
        dist == ISqrt(d2)
        overlap == minDist - dist
    IN  IF d2 < minDist * minDist
        THEN IF dist = 0 THEN Pos(c.x + minDist, c.y)
             ELSE Pos(c.x + RDiv(dx * overlap, dist), c.y + RDiv(dy * overlap, dist))
        ELSE c

\* PushOut that removes only half of the overlap
PushOutHalfWay(activeRadius, c, body) ==
    LET minDist == activeRadius + body.radius
        dx == c.x - body.position.x
        dy == c.y - body.position.y
        d2 == dx * dx + dy * dy
        dist == ISqrt(d2)
        overlap == (minDist - dist) \div 2
    IN  IF d2 < minDist * minDist /\ d2 > 0 /\ dist > 0
        THEN Pos(c.x + RDiv(dx * overlap, dist), c.y + RDiv(dy * overlap, dist))
        ELSE c

\* one body of the two loops: the corrected position c is pushed out of the body
\* along the line of centres when 0 < dist < minDist
PushOut(activeRadius, c, body) ==
    LET minDist == activeRadius + body.radius
        dx == c.x - body.position.x
        dy == c.y - body.position.y
        d2 == dx * dx + dy * dy
        dist == ISqrt(d2)
        overlap == minDist - dist
    IN  IF d2 < minDist * minDist /\ d2 > 0 /\ dist > 0
        THEN Pos(c.x + RDiv(dx * overlap, dist), c.y + RDiv(dy * overlap, dist))
        ELSE c

IndexOfId(list, id) ==
    IF \E k \in 1..Len(list) : list[k].id = id
    THEN CHOOSE k \in 1..Len(list) :
             list[k].id = id /\ \A j \in 1..(k - 1) : list[j].id # id
    ELSE 0

resolveCollisions(activePlayerId, newX, newY, allPlayers, obstacles) ==
    LET a == IndexOfId(allPlayers, activePlayerId)
    IN  IF a = 0 THEN Pos(newX, newY)
        ELSE LET activeRadius == getPlayerRadius(allPlayers[a])
                 afterPlayers ==
                     FoldSeq(LAMBDA c, other :
                                 IF other.id = activePlayerId THEN c
                                 ELSE PushOut(activeRadius, c,
                                              [position |-> other.position,
                                               radius |-> getPlayerRadius(other)]),
                             Pos(newX, newY), allPlayers, 1)
             IN  FoldSeq(LAMBDA c, obs : PushOut(activeRadius, c, obs),
                         afterPlayers, obstacles, 1)

----------------------------------------------------------------------------
(* TacticsBoard.tsx: the keyframe interpolator.                             *)
(* Progress and curve parameters are in hundredths (ONE = 1.0), angles in   *)
(* whole degrees.  An action is [playerId, type, path, speed].              *)

MovementTypes == {"move", "dribble", "screen", "steal", "block"}
BallTypes == {"pass", "shoot"}

\* a + (b - a) * t
Lerp(a, b, t) == a + RDiv((b - a) * t, ONE)

\* getPointOnSpline (lines 222-263)
getPointOnSpline(points, t) ==
    IF Len(points) = 0 THEN Pos(0, 0)
    ELSE IF Len(points) = 1 THEN points[1]
    ELSE IF Len(points) = 2
    THEN Pos(Lerp(points[1].x, points[2].x, t), Lerp(points[1].y, points[2].y, t))
    ELSE LET totalSegments == Len(points) - 1
             segmentT == t * totalSegments
             index == segmentT \div ONE
             localT == segmentT - index * ONE
             i == Min(Max(index, 0), totalSegments - 1)
             p0 == points[(IF i = 0 THEN 0 ELSE i - 1) + 1]
             p1 == points[i + 1]
             p2 == points[i + 2]
             p3 == points[(IF i + 2 >= Len(points) THEN Len(points) - 1 ELSE i + 2) + 1]
             tt == RDiv(localT * localT, ONE)
             ttt == RDiv(tt * localT, ONE)
             Coord(c0, c1, c2, c3) ==
                 RDiv(2 * c1 * ONE + (c2 - c0) * localT
                          + (2 * c0 - 5 * c1 + 4 * c2 - c3) * tt
                          + (3 * c1 - c0 - 3 * c2 + c3) * ttt,
                      2 * ONE)
         IN  Pos(Coord(p0.x, p1.x, p2.x, p3.x), Coord(p0.y, p1.y, p2.y, p3.y))

\* Array.prototype.find over the actions: index of the first match, 0 if none
FindAction(acts, playerId, types) ==
    IF \E k \in 1..Len(acts) : acts[k].playerId = playerId /\ acts[k].type \in types
    THEN CHOOSE k \in 1..Len(acts) :
             /\ acts[k].playerId = playerId /\ acts[k].type \in types
             /\ \A j \in 1..(k - 1) :
                    ~(acts[j].playerId = playerId /\ acts[j].type \in types)
    ELSE 0

\* GoverningAction with the owner's movement action preferred to a pass or shot
GoverningActionMovementFirst(entity, currentActions) ==
    IF entity.type = "player"
    THEN FindAction(currentActions, entity.id, MovementTypes)
    ELSE IF entity.ownerId = NoId THEN 0
    ELSE LET own == FindAction(currentActions, entity.ownerId, MovementTypes)
         IN  IF own # 0 THEN own
             ELSE FindAction(currentActions, entity.ownerId, BallTypes)

\* the action that moves the entity (lines 294-324), 0 if none
GoverningAction(entity, currentActions) ==
    IF entity.type = "player"
    THEN FindAction(currentActions, entity.id, MovementTypes)
    ELSE IF entity.ownerId = NoId THEN 0
    ELSE LET own == FindAction(currentActions, entity.ownerId, BallTypes)
         IN  IF own # 0 THEN own
             ELSE FindAction(currentActions, entity.ownerId, MovementTypes)

\* speed multiplier in tenths (lines 335-337)
SpeedMultiplier(speed) ==
    IF speed = "sprint" THEN 25 ELSE IF speed = "walk" THEN 10 ELSE 15

\* LocalProgress that ignores the speed tag
LocalProgressIgnoringSpeed(progress, speed) == Min(ONE, progress)

LocalProgress(progress, speed) == Min(ONE, RDiv(progress * SpeedMultiplier(speed), 10))

\* rotation along the shortest way round (lines 373-378, 395-400)
InterpolateRotation(r1, r2, t) ==
    LET d0 == r2 - r1
        d1 == IF d0 > 180 THEN d0 - 360 ELSE d0
        delta == IF d1 < -180 THEN d1 + 360 ELSE d1
    IN  r1 + RDiv(delta * t, ONE)

Fresh0 == [kind |-> "fresh", idx |-> 0]

\* One element of renderedEntities (lines 282-407): the rendered entity and what
\* its position object is: a new object ("fresh"), the position of the stored
\* entity idx itself ("entity": the stored object is returned as it is), or the
\* last control point of the stored action idx ("pathEnd")
RenderedEntity(k, currentEntities, nextEntities, currentActions, progress) ==
    LET entity == currentEntities[k]
        n == IndexOfId(nextEntities, entity.id)
        nextEntity == nextEntities[n]
        a == GoverningAction(entity, currentActions)
        action == currentActions[a]
        bothPlayers == entity.type = "player" /\ nextEntity.type = "player"
                           /\ entity.hasRotation /\ nextEntity.hasRotation
        rot0 == IF entity.type = "player" THEN entity.rotation ELSE 0
    IN  IF n = 0 THEN [ent |-> entity, alias |-> [kind |-> "entity", idx |-> k]]
        ELSE IF a # 0 /\ Len(currentActions[a].path) >= 2
        THEN LET lp == LocalProgress(progress, action.speed)
                 t == IF action.type = "steal" THEN RDiv(lp * lp, ONE) ELSE lp
                 rot == IF bothPlayers
                        THEN InterpolateRotation(entity.rotation, nextEntity.rotation, t)
                        ELSE rot0
             IN  IF t >= ONE
                 THEN [ent |-> [entity EXCEPT !.position = action.path[Len(action.path)],
                                              !.rotation = rot],
                       alias |-> [kind |-> "pathEnd", idx |-> a]]
                 ELSE [ent |-> [entity EXCEPT !.position = getPointOnSpline(action.path, t),
                                              !.rotation = rot],
                       alias |-> Fresh0]
        ELSE [ent |-> [entity EXCEPT
                          !.position = Pos(Lerp(entity.position.x, nextEntity.position.x,
                                                progress),
                                           Lerp(entity.position.y, nextEntity.position.y,
                                                progress)),
                          !.rotation = IF bothPlayers
                                       THEN InterpolateRotation(entity.rotation,
                                                                nextEntity.rotation, progress)
                                       ELSE rot0],
              alias |-> Fresh0]

\* What the rendered entity carries besides the entity's fields (lines 288-290,
\* 297-305, 353-358, 403-405), scale and armExtension in thousandths; present is
\* FALSE for the stored entity returned as it is (line 284), which has none.
NoExtras == [present |-> FALSE, scale |-> 1000, armExtension |-> 0, actionType |-> "undefined"]

RenderedExtras(k, currentEntities, nextEntities, currentActions, progress) ==
    LET entity == currentEntities[k]
        n == IndexOfId(nextEntities, entity.id)
        a == GoverningAction(entity, currentActions)
        action == currentActions[a]
        actionType == IF entity.type = "player" /\ a # 0 THEN action.type ELSE "undefined"
        jump == IF actionType = "block"
                THEN 1000 + RDiv(3 * 4 * progress * (ONE - progress), ONE)
                ELSE 1000
    IN  IF n = 0 THEN NoExtras
        ELSE IF a # 0 /\ Len(currentActions[a].path) >= 2
        THEN LET lp == LocalProgress(progress, action.speed)
                 t == IF action.type = "steal" THEN RDiv(lp * lp, ONE) ELSE lp
             IN  [present |-> TRUE,
                  scale |-> IF action.type = "steal" THEN 1000 + t ELSE jump,
                  armExtension |-> IF action.type = "steal" /\ t > 30
                                   THEN RDiv((t - 30) * 1000, 70) ELSE 0,
                  actionType |-> actionType]
        ELSE [present |-> TRUE, scale |-> jump, armExtension |-> 0,
              actionType |-> actionType]

\* Math.sin and Math.cos in thousandths, the angle taken to the nearest 10 degrees
SinTable == <<0, 174, 342, 500, 643, 766, 866, 940, 985, 1000>>

Sin1000(deg) ==
    LET d == (RDiv(deg, 10) * 10) % 360
    IN  IF d <= 90 THEN SinTable[d \div 10 + 1]
        ELSE IF d <= 180 THEN SinTable[(180 - d) \div 10 + 1]
        ELSE IF d <= 270 THEN -SinTable[(d - 180) \div 10 + 1]
        ELSE -SinTable[(360 - d) \div 10 + 1]

Cos1000(deg) == Sin1000(deg + 90)

offsetDistance == 22
dribbleAngleOffset == -50

\* the ball beside its owner (lines 451-473)
BallBesideOwner(owner) ==
    Pos(owner.position.x
            + RDiv(Cos1000(owner.rotation + dribbleAngleOffset) * offsetDistance * FP, 1000),
        owner.position.y
            + RDiv(Sin1000(owner.rotation + dribbleAngleOffset) * offsetDistance * FP, 1000))

----------------------------------------------------------------------------
(* TacticsBoard.tsx: the playback scheduler.                                *)
(*                                                                          *)
(* In this part entitiesMap and actionsMap values are object identities:    *)
(* an entitiesMap is a reference number, an actionsMap is                   *)
(* [ref, hasActions].  React compares effect dependencies by identity, and  *)
(* handlers load the live state from a frame by reference.                  *)
(*                                                                          *)
(* A handler (or an animation callback) and the render it causes are one    *)
(* step.  Passive effects of a commit run later: either on their own        *)
(* (FlushEffects) or, at the latest, at the start of the next render, after *)
(* the handler that caused it has run.                                      *)

MaxFrames == 2      \* frames in the list
MaxRefs == 3        \* distinct entitiesMap / actionsMap objects alive at once
MaxRafIds == 3      \* ids the host hands out for animation callbacks

Speeds == {100, 200}            \* playback speeds the menu offers (1.0x, 2.0x)
ElapsedTimes == {50, 100}       \* time between two callbacks, hundredths of a second
ScrubFractions == {0, 50}   \* fractional parts of the slider value

NoEffects == [sync |-> FALSE, anim |-> FALSE]
NoPatch == [on |-> FALSE, idx |-> 0, entitiesMap |-> 0,
            actionsMap |-> [ref |-> 0, hasActions |-> FALSE]]

\* the component's state and refs as one record
State ==
    [frames |-> frames, currentFrameIndex |-> currentFrameIndex,
     isPlaying |-> isPlaying, playbackSpeed |-> playbackSpeed,
     animationProgress |-> animationProgress, isAnimationMode |-> isAnimationMode,
     entitiesMap |-> entitiesMap, actionsMap |-> actionsMap,
     isSwitchingFrame |-> isSwitchingFrame, animationRef |-> animationRef,
     rafQueue |-> rafQueue, pendingEffects |-> pendingEffects]

\* frames[i] of the source (0-based)
FrameAt(fr, i) == fr[i + 1]

\* the sync effect without the early return while playing (line 153)
SyncEffectWhilePlaying(s) ==
    IF s.isSwitchingFrame THEN [flag |-> FALSE, patch |-> NoPatch]
    ELSE [flag |-> FALSE,
          patch |-> [on |-> TRUE, idx |-> s.currentFrameIndex,
                     entitiesMap |-> s.entitiesMap, actionsMap |-> s.actionsMap]]

\* Sync effect (lines 151-172): what it leaves in isSwitchingFrame.current and the
\* setFrames updater it enqueues
SyncEffect(s) ==
    IF s.isPlaying THEN [flag |-> s.isSwitchingFrame, patch |-> NoPatch]
    ELSE IF s.isSwitchingFrame THEN [flag |-> FALSE, patch |-> NoPatch]
    ELSE [flag |-> FALSE,
          patch |-> [on |-> TRUE, idx |-> s.currentFrameIndex,
                     entitiesMap |-> s.entitiesMap, actionsMap |-> s.actionsMap]]

\* the setFrames updater of the sync effect applied to the frame list
ApplyPatch(fr, patch) ==
    IF ~patch.on \/ patch.idx + 1 > Len(fr) THEN fr
    ELSE [fr EXCEPT ![patch.idx + 1] =
              [@ EXCEPT !.entitiesMap = patch.entitiesMap,
                        !.actionsMap = patch.actionsMap]]

\* requestAnimationFrame: the id handed out
FreshRafId(queue, ref) ==
    CHOOSE id \in 1..MaxRafIds :
        /\ id # ref
        /\ \A cb \in queue : cb.id # id
        /\ \A other \in 1..MaxRafIds :
               (other # ref /\ \A cb \in queue : cb.id # other) => id <= other

CanRequestFrame(queue, ref) ==
    \E id \in 1..MaxRafIds : id # ref /\ \A cb \in queue : cb.id # id

\* cancelAnimationFrame(id)
CancelFrame(queue, id) == {cb \in queue : cb.id # id}

\* the animate closure created by the animation-loop effect of render s
AnimateClosure(s, id) ==
    [id |-> id, currentFrameIndex |-> s.currentFrameIndex, frames |-> s.frames,
     playbackSpeed |-> s.playbackSpeed]

\* Animation-loop effect (lines 175-219): cleanup of the previous run, then the body
AnimationEffect(s) ==
    LET cancelled == IF s.animationRef # 0
                     THEN CancelFrame(s.rafQueue, s.animationRef)
                     ELSE s.rafQueue
    IN  IF s.isPlaying
        THEN LET id == FreshRafId(cancelled, s.animationRef)
             IN  [animationRef |-> id,
                  rafQueue |-> cancelled \cup {AnimateClosure(s, id)}]
        ELSE [animationRef |-> s.animationRef, rafQueue |-> cancelled]

\* the pending passive effects of render s run
Flush(s) ==
    LET sy == IF s.pendingEffects.sync THEN SyncEffect(s)
              ELSE [flag |-> s.isSwitchingFrame, patch |-> NoPatch]
        an == IF s.pendingEffects.anim THEN AnimationEffect(s)
              ELSE [animationRef |-> s.animationRef, rafQueue |-> s.rafQueue]
    IN  [isSwitchingFrame |-> sy.flag, patch |-> sy.patch,
         animationRef |-> an.animationRef, rafQueue |-> an.rafQueue]

\* dependency lists of the two effects
SyncDeps(s) == <<s.entitiesMap, s.actionsMap, s.currentFrameIndex, s.isPlaying>>
AnimDeps(s) == <<s.isPlaying, s.playbackSpeed, s.currentFrameIndex, Len(s.frames)>>

\* A handler has run against render pre: refs are what it left in the refs and the
\* host queue, target the React state it set (setsFrames: it called setFrames).
\* The effects still pending from pre run first, then the new state is rendered.
Commit(pre, refs, target, setsFrames) ==
    \E s1 \in {[pre EXCEPT !.isSwitchingFrame = refs.isSwitchingFrame,
                           !.animationRef = refs.animationRef,
                           !.rafQueue = refs.rafQueue]} :
    \E fl \in {Flush(s1)} :
    \E new \in {[target EXCEPT
                    !.frames = ApplyPatch(IF setsFrames THEN target.frames ELSE pre.frames,
                                          fl.patch)]} :
        /\ frames' = new.frames
        /\ currentFrameIndex' = new.currentFrameIndex
        /\ isPlaying' = new.isPlaying
        /\ playbackSpeed' = new.playbackSpeed
        /\ animationProgress' = new.animationProgress
        /\ isAnimationMode' = new.isAnimationMode
        /\ entitiesMap' = new.entitiesMap
        /\ actionsMap' = new.actionsMap
        /\ isSwitchingFrame' = fl.isSwitchingFrame
        /\ animationRef' = fl.animationRef
        /\ rafQueue' = fl.rafQueue
        /\ pendingEffects' = [sync |-> SyncDeps(new) # SyncDeps(pre),
                              anim |-> AnimDeps(new) # AnimDeps(pre)]

SameRefs(s) ==
    [isSwitchingFrame |-> s.isSwitchingFrame, animationRef |-> s.animationRef,
     rafQueue |-> s.rafQueue]

SwitchingRefs(s) == [SameRefs(s) EXCEPT !.isSwitchingFrame = TRUE]

\* setCurrentFrameIndex(i); setEntitiesMap(fr[i].entitiesMap); setActionsMap(fr[i].actionsMap)
LoadFrame(s, fr, i) ==
    [s EXCEPT !.currentFrameIndex = i,
              !.entitiesMap = FrameAt(fr, i).entitiesMap,
              !.actionsMap = FrameAt(fr, i).actionsMap]

\* object identities in use, and the next unused one
EntRefs(s) ==
    {s.entitiesMap} \cup {s.frames[i].entitiesMap : i \in 1..Len(s.frames)}
        \cup UNION {{cb.frames[i].entitiesMap : i \in 1..Len(cb.frames)} : cb \in s.rafQueue}

ActRefs(s) ==
    {s.actionsMap.ref} \cup {s.frames[i].actionsMap.ref : i \in 1..Len(s.frames)}
        \cup UNION {{cb.frames[i].actionsMap.ref : i \in 1..Len(cb.frames)} : cb \in s.rafQueue}

HasFresh(used) == \E r \in 1..MaxRefs : r \notin used
Fresh(used) == CHOOSE r \in 1..MaxRefs : r \notin used /\ \A q \in 1..MaxRefs : q \notin used => r <= q

\* Array.prototype.splice(at, 0, x) and the filter((_, i) => i !== at) of the source
Splice(fr, at, x) ==
    LET start == Min(at, Len(fr))
    IN  [i \in 1..(Len(fr) + 1) |->
            IF i <= start THEN fr[i] ELSE IF i = start + 1 THEN x ELSE fr[i - 1]]

FilterOut(fr, at) ==
    IF at >= Len(fr) THEN fr
    ELSE [i \in 1..(Len(fr) - 1) |-> IF i <= at THEN fr[i] ELSE fr[i + 1]]

Others == <<viewMode, ghostResult, showGhostDefense, render, call>>

\* the operation that produced the current state, with its argument
Did(name, arg) == [op |-> name, arg |-> arg]

\* animate without the end-of-animation branch: the last frame is replayed for ever
TickWithoutEnd(cb, dt) ==
    /\ cb \in rafQueue
    /\ CanRequestFrame(rafQueue \ {cb}, animationRef)
    /\ \E pre \in {State} :
       \E next \in {animationProgress + (dt * cb.playbackSpeed) \div 100} :
       \E target \in {IF next >= ONE
                      THEN IF cb.currentFrameIndex < Len(cb.frames) - 1
                           THEN [LoadFrame(pre, cb.frames, cb.currentFrameIndex + 1)
                                     EXCEPT !.animationProgress = 0]
                           ELSE [pre EXCEPT !.animationProgress = 0]
                      ELSE [pre EXCEPT !.animationProgress = next]} :
       \E id \in {FreshRafId(rafQueue \ {cb}, animationRef)} :
           Commit(pre,
                  [isSwitchingFrame |-> isSwitchingFrame, animationRef |-> id,
                   rafQueue |-> (rafQueue \ {cb}) \cup {[cb EXCEPT !.id = id]}],
                  target, FALSE)
    /\ step' = Did("Tick", 0)
    /\ UNCHANGED <<Others, userPresent>>

\* animate with the overshoot carried into the next interval instead of the return 0
TickCarriesOvershoot(cb, dt) ==
    /\ cb \in rafQueue
    /\ CanRequestFrame(rafQueue \ {cb}, animationRef)
    /\ \E pre \in {State} :
       \E next \in {animationProgress + (dt * cb.playbackSpeed) \div 100} :
       \E target \in {IF next >= ONE
                      THEN IF cb.currentFrameIndex < Len(cb.frames) - 1
                           THEN [LoadFrame(pre, cb.frames, cb.currentFrameIndex + 1)
                                     EXCEPT !.animationProgress = next - ONE]
                           ELSE [pre EXCEPT !.isPlaying = FALSE,
                                            !.isAnimationMode = FALSE,
                                            !.animationProgress = 0]
                      ELSE [pre EXCEPT !.animationProgress = next]} :
       \E id \in {FreshRafId(rafQueue \ {cb}, animationRef)} :
           Commit(pre,
                  [isSwitchingFrame |-> isSwitchingFrame, animationRef |-> id,
                   rafQueue |-> (rafQueue \ {cb}) \cup {[cb EXCEPT !.id = id]}],
                  target, FALSE)
    /\ step' = Did("Tick", 0)
    /\ UNCHANGED <<Others, userPresent>>

\* the animate callback (lines 179-209) fires, dt hundredths of a second after the
\* previous one
Tick(cb, dt) ==
    /\ cb \in rafQueue
    /\ CanRequestFrame(rafQueue \ {cb}, animationRef)
    /\ \E pre \in {State} :
       \E next \in {animationProgress + (dt * cb.playbackSpeed) \div 100} :
       \E target \in {IF next >= ONE
                      THEN IF cb.currentFrameIndex < Len(cb.frames) - 1
                           THEN [LoadFrame(pre, cb.frames, cb.currentFrameIndex + 1)
                                     EXCEPT !.animationProgress = 0]
                           ELSE [pre EXCEPT !.isPlaying = FALSE,
                                            !.isAnimationMode = FALSE,
                                            !.animationProgress = 0]
                      ELSE [pre EXCEPT !.animationProgress = next]} :
       \E id \in {FreshRafId(rafQueue \ {cb}, animationRef)} :
           Commit(pre,
                  [isSwitchingFrame |-> isSwitchingFrame, animationRef |-> id,
                   rafQueue |-> (rafQueue \ {cb}) \cup {[cb EXCEPT !.id = id]}],
                  target, FALSE)
    /\ step' = Did("Tick", 0)
    /\ UNCHANGED <<Others, userPresent>>

\* the passive effects of the last commit run before anything else happens
FlushEffects ==
    /\ pendingEffects # NoEffects
    /\ (pendingEffects.anim /\ isPlaying) =>
           CanRequestFrame(CancelFrame(rafQueue, animationRef), animationRef)
    /\ \E fl \in {Flush(State)} :
           /\ frames' = ApplyPatch(frames, fl.patch)
           /\ isSwitchingFrame' = fl.isSwitchingFrame
           /\ animationRef' = fl.animationRef
           /\ rafQueue' = fl.rafQueue
    /\ pendingEffects' = NoEffects
    /\ step' = Did("FlushEffects", 0)
    /\ UNCHANGED <<currentFrameIndex, isPlaying, playbackSpeed, animationProgress,
                   isAnimationMode, entitiesMap, actionsMap, Others, userPresent>>

\* the Play button restarting from frame 0 on every press
PlayAlwaysRestarts ==
    /\ userPresent
    /\ LET pre == State
       IN  Commit(pre, SwitchingRefs(pre),
                  [LoadFrame(pre, frames, 0) EXCEPT !.animationProgress = 0,
                                                    !.isAnimationMode = TRUE,
                                                    !.isPlaying = TRUE], FALSE)
    /\ step' = Did(IF isPlaying THEN "PlayWhilePlaying" ELSE "Play", 0)
    /\ UNCHANGED <<Others, userPresent>>

\* Play button (lines 1630-1642)
Play ==
    /\ userPresent
    /\ LET pre == State
           restart == ~isAnimationMode \/ currentFrameIndex >= Len(frames) - 1
           base == IF restart
                   THEN [LoadFrame(pre, frames, 0) EXCEPT !.animationProgress = 0]
                   ELSE pre
       IN  Commit(pre, IF restart THEN SwitchingRefs(pre) ELSE SameRefs(pre),
                  [base EXCEPT !.isAnimationMode = TRUE, !.isPlaying = TRUE], FALSE)
    /\ step' = Did(IF isPlaying THEN "PlayWhilePlaying" ELSE "Play", 0)
    /\ UNCHANGED <<Others, userPresent>>

\* Pause button (line 1622)
Pause ==
    /\ userPresent
    /\ LET pre == State
       IN  Commit(pre, SameRefs(pre), [pre EXCEPT !.isPlaying = FALSE], FALSE)
    /\ step' = Did("Pause", 0)
    /\ UNCHANGED <<Others, userPresent>>

\* handleStop without setAnimationProgress(0)
handleStopKeepsProgress ==
    /\ userPresent
    /\ LET pre == State
       IN  Commit(pre, SwitchingRefs(pre),
                  [LoadFrame(pre, frames, 0) EXCEPT !.isPlaying = FALSE,
                                                    !.isAnimationMode = FALSE],
                  FALSE)
    /\ step' = Did("handleStop", 0)
    /\ UNCHANGED <<Others, userPresent>>

\* handleStop (lines 1445-1453)
handleStop ==
    /\ userPresent
    /\ LET pre == State
       IN  Commit(pre, SwitchingRefs(pre),
                  [LoadFrame(pre, frames, 0) EXCEPT !.isPlaying = FALSE,
                                                    !.isAnimationMode = FALSE,
                                                    !.animationProgress = 0],
                  FALSE)
    /\ step' = Did("handleStop", 0)
    /\ UNCHANGED <<Others, userPresent>>

\* the slider handler without setIsPlaying(false)
ScrubKeepsPlaying(val) ==
    /\ userPresent
    /\ isAnimationMode
    /\ val >= 0 /\ val <= (Len(frames) - 1) * ONE
    /\ LET pre == State
           frameIdx == val \div ONE
           progress == val - frameIdx * ONE
           switch == frameIdx # currentFrameIndex
           base == IF switch THEN LoadFrame(pre, frames, frameIdx) ELSE pre
       IN  Commit(pre, IF switch THEN SwitchingRefs(pre) ELSE SameRefs(pre),
                  [base EXCEPT !.animationProgress = progress],
                  FALSE)
    /\ step' = Did("Scrub", val)
    /\ UNCHANGED <<Others, userPresent>>

\* Slider onChange (lines 2833-2846); the slider is shown in animation mode only
Scrub(val) ==
    /\ userPresent
    /\ isAnimationMode
    /\ val >= 0 /\ val <= (Len(frames) - 1) * ONE
    /\ LET pre == State
           frameIdx == val \div ONE
           progress == val - frameIdx * ONE
           switch == frameIdx # currentFrameIndex
           base == IF switch THEN LoadFrame(pre, frames, frameIdx) ELSE pre
       IN  Commit(pre, IF switch THEN SwitchingRefs(pre) ELSE SameRefs(pre),
                  [base EXCEPT !.animationProgress = progress, !.isPlaying = FALSE],
                  FALSE)
    /\ step' = Did("Scrub", val)
    /\ UNCHANGED <<Others, userPresent>>

\* handleSelectFrame (lines 1342-1349)
handleSelectFrame(index) ==
    /\ userPresent
    /\ index \in 0..(Len(frames) - 1)
    /\ LET pre == State
       IN  Commit(pre, SwitchingRefs(pre),
                  [LoadFrame(pre, frames, index) EXCEPT !.isPlaying = FALSE,
                                                        !.animationProgress = 0],
                  FALSE)
    /\ step' = Did("handleSelectFrame", index)
    /\ UNCHANGED <<Others, userPresent>>

\* handleAddFrame (lines 1256-1340): a deep copy of the live entities, moved to the
\* ends of the live actions, is inserted after the current frame and made current
handleAddFrame ==
    /\ userPresent
    /\ actionsMap.hasActions
    /\ Len(frames) < MaxFrames
    /\ HasFresh(EntRefs(State)) /\ HasFresh(ActRefs(State))
    /\ LET pre == State
           newFrame == [entitiesMap |-> Fresh(EntRefs(pre)),
                        actionsMap |-> [ref |-> Fresh(ActRefs(pre)), hasActions |-> FALSE]]
           newFrames == Splice(frames, currentFrameIndex + 1, newFrame)
       IN  Commit(pre, SwitchingRefs(pre),
                  [pre EXCEPT !.frames = newFrames,
                              !.currentFrameIndex = currentFrameIndex + 1,
                              !.entitiesMap = newFrame.entitiesMap,
                              !.actionsMap = newFrame.actionsMap],
                  TRUE)
    /\ step' = Did("handleAddFrame", 0)
    /\ UNCHANGED <<Others, userPresent>>

\* handleDeleteFrame (lines 1354-1370)
handleDeleteFrame ==
    /\ userPresent
    /\ Len(frames) > 1
    /\ LET pre == State
           newFrames == FilterOut(frames, currentFrameIndex)
           newIndex == IF currentFrameIndex >= Len(newFrames)
                       THEN Len(newFrames) - 1 ELSE currentFrameIndex
       IN  Commit(pre, SwitchingRefs(pre),
                  [LoadFrame(pre, newFrames, newIndex) EXCEPT !.frames = newFrames],
                  TRUE)
    /\ step' = Did("handleDeleteFrame", 0)
    /\ UNCHANGED <<Others, userPresent>>

\* handleStageMouseUp (lines 822-850): a drawn action is appended to the live actions
handleStageMouseUp ==
    /\ userPresent
    /\ HasFresh(ActRefs(State))
    /\ LET pre == State
       IN  Commit(pre, SameRefs(pre),
                  [pre EXCEPT !.actionsMap = [ref |-> Fresh(ActRefs(pre)),
                                              hasActions |-> TRUE]], FALSE)
    /\ step' = Did("handleStageMouseUp", 0)
    /\ UNCHANGED <<Others, userPresent>>

\* speed menu (line 1594)
SetPlaybackSpeed(sp) ==
    /\ userPresent
    /\ sp # playbackSpeed
    /\ LET pre == State
       IN  Commit(pre, SameRefs(pre), [pre EXCEPT !.playbackSpeed = sp], FALSE)
    /\ step' = Did("SetPlaybackSpeed", 0)
    /\ UNCHANGED <<Others, userPresent>>

\* playback has just been started, and from here on nobody touches the controls
UserLeaves ==
    /\ userPresent
    /\ step = Did("Play", 0)
    /\ userPresent' = FALSE
    /\ step' = Did("UserLeaves", 0)
    /\ UNCHANGED <<reactVars, schedVars, Others>>

\* the state after mounting: one empty frame, synced with the live state
Init ==
    /\ frames = <<[entitiesMap |-> 1, actionsMap |-> [ref |-> 1, hasActions |-> FALSE]]>>
    /\ currentFrameIndex = 0
    /\ isPlaying = FALSE
    /\ playbackSpeed = 100
    /\ animationProgress = 0
    /\ isAnimationMode = FALSE
    /\ entitiesMap = 1
    /\ actionsMap = [ref |-> 1, hasActions |-> FALSE]
    /\ viewMode = "full"
    /\ isSwitchingFrame = FALSE
    /\ animationRef = 0
    /\ rafQueue = {}
    /\ pendingEffects = NoEffects
    /\ step = Did("init", 0)
    /\ userPresent = TRUE
    /\ ghostResult = [attackerId |-> "", result |-> <<>>]
    /\ showGhostDefense = FALSE
    /\ render = NoRender
    /\ call = NoCall

AnimationFrame == \E cb \in rafQueue, dt \in ElapsedTimes : Tick(cb, dt)

Next ==
    \/ AnimationFrame
    \/ FlushEffects
    \/ Play
    \/ Pause
    \/ handleStop
    \/ \E f \in 0..(MaxFrames - 1), r \in ScrubFractions : Scrub(f * ONE + r)
    \/ \E i \in 0..(MaxFrames - 1) : handleSelectFrame(i)
    \/ handleAddFrame
    \/ handleDeleteFrame
    \/ handleStageMouseUp
    \/ \E sp \in Speeds : SetPlaybackSpeed(sp)
    \/ UserLeaves

Spec == Init /\ [][Next]_vars

\* the host keeps firing requested animation callbacks, and React runs pending effects
SpecFair == Spec /\ WF_vars(AnimationFrame) /\ WF_vars(FlushEffects)

----------------------------------------------------------------------------
(* Properties of the playback scheduler                                    *)

LastFrameIndex == Len(frames) - 1

C3_StopResetsToFrameZero ==
    step.op = "handleStop" =>
        /\ ~isPlaying
        /\ currentFrameIndex = 0
        /\ animationProgress = 0
        /\ entitiesMap = FrameAt(frames, 0).entitiesMap
        /\ actionsMap = FrameAt(frames, 0).actionsMap

\* Stop pressed during playback on a later frame, part of the way through it
C3_Witness ==
    /\ step.op = "handleStop"
    /\ rafQueue # {}
    /\ \E cb \in rafQueue : cb.currentFrameIndex > 0
    /\ pendingEffects.anim

\* C4: right after the slider is moved to v, playback is paused at frame floor(v)
\* with progress v - floor(v)
C4_ScrubSetsTimeAndPauses ==
    step.op = "Scrub" =>
        /\ ~isPlaying
        /\ currentFrameIndex = step.arg \div ONE
        /\ animationProgress = step.arg - (step.arg \div ONE) * ONE

\* the slider moved into the middle of a frame while playback was running
C4_Witness ==
    /\ step.op = "Scrub"
    /\ step.arg % ONE # 0
    /\ rafQueue # {}
    /\ pendingEffects.anim

\* C5: at most one animation callback is pending, and a callback that fires while
\* isPlaying is false changes neither animationProgress nor currentFrameIndex
C5_NoTickAfterStop ==
    [][/\ Cardinality(rafQueue') <= 1
       /\ (step'.op = "Tick" /\ ~isPlaying) =>
              /\ animationProgress' = animationProgress
              /\ currentFrameIndex' = currentFrameIndex]_vars

----------------------------------------------------------------------------
(* The estimator as a function of its arguments: the roster, the ball and   *)
(* the view mode are drawn from bounded sets, and GhostDefender applies     *)
(* calculateGhostDefender to one player of the roster, as the map at        *)
(* getRenderEntities does for every player.                                 *)

MaxOthers == 2      \* roster entries besides the first player

PlayerIds == <<"p1", "p2", "p3", "p4", "p5">>

\* offsets from the basket: <<along the court, across the court>>, in court units
AttackerOffsets == {<<0, 0>>, <<10, 0>>, <<100, 0>>, <<200, 0>>, <<120, 90>>}
OtherOffsets == {<<15, 0>>, <<55, 0>>, <<70, 0>>, <<96, 72>>, <<60, 30>>}
LooseBallOffset == <<250, 100>>

PlaceAt(vm, off) ==
    LET b == BASKET_POS(vm)
    IN  IF vm = "half"
        THEN Pos(b.x + off[2] * FP, b.y + off[1] * FP)
        ELSE Pos(b.x + off[1] * FP, b.y + off[2] * FP)

ZoneNames == <<"Restricted Area", "In The Paint (Non-RA)", "Mid-Range",
               "Left Corner 3", "Right Corner 3", "Above the Break 3">>

ShooterProfile(pct) ==
    [hasStats |-> TRUE, height |-> <<>>, weight |-> 0,
     hotZones |-> [i \in 1..Len(ZoneNames) |-> [key |-> ZoneNames[i], pct |-> pct]]]

\* 6'9", 250 lb
BigProfile == [hasStats |-> TRUE, height |-> <<6, 9>>, weight |-> 250, hotZones |-> <<>>]

AttackerProfiles == {NoProfile, ShooterProfile(20), ShooterProfile(50), ShooterProfile(70)}

OtherChoices ==
    {[off |-> o, profile |-> NoProfile] : o \in OtherOffsets}
        \cup {[off |-> <<55, 0>>, profile |-> BigProfile]}

OtherLists == UNION {[1..n -> OtherChoices] : n \in 0..MaxOthers}

Roster(vm, aOff, aProfile, others) ==
    <<PlayerEntity(PlayerIds[1], PlaceAt(vm, aOff), 0, aProfile)>>
    \o [i \in 1..Len(others) |->
            PlayerEntity(PlayerIds[i + 1], PlaceAt(vm, others[i].off), 0, others[i].profile)]

PlayersOf(entities) == SelectSeq(entities, LAMBDA e : e.type = "player")

\* entities.find(e => e.type === 'ball')
BallOf(entities) ==
    LET b == SelectSeq(entities, LAMBDA e : e.type = "ball")
    IN  IF Len(b) = 0 THEN NoBall ELSE b[1]

NoResult ==
    [attackerId |-> NoId,
     result |-> [position |-> Pos(0, 0), radius |-> 0, gap |-> 0, isRealData |-> FALSE,
                 pct |-> 0, isScreened |-> FALSE, screenDisplacement |-> 0]]

IdlePlayback ==
    /\ frames = <<>>
    /\ currentFrameIndex = 0
    /\ isPlaying = FALSE
    /\ playbackSpeed = 100
    /\ animationProgress = 0
    /\ isAnimationMode = FALSE
    /\ actionsMap = <<>>
    /\ isSwitchingFrame = FALSE
    /\ animationRef = 0
    /\ rafQueue = {}
    /\ pendingEffects = [sync |-> FALSE, anim |-> FALSE]
    /\ userPresent = TRUE
    /\ showGhostDefense = FALSE
    /\ render = NoRender

InitGhost ==
    /\ IdlePlayback
    /\ call = NoCall
    /\ viewMode \in {"full", "half"}
    /\ \E aOff \in AttackerOffsets, aProfile \in AttackerProfiles, others \in OtherLists,
          ballState \in {"none", "owned", "loose"} :
         LET roster == Roster(viewMode, aOff, aProfile, others)
         IN  entitiesMap =
                 IF ballState = "none" THEN roster
                 ELSE IF ballState = "owned"
                      THEN roster \o <<BallEntity("ball", roster[1].position, PlayerIds[1])>>
                      ELSE roster \o <<BallEntity("ball", PlaceAt(viewMode, LooseBallOffset), NoId)>>
    /\ ghostResult = NoResult
    /\ step = Did("init", 0)

GhostDefender(i) ==
    /\ i \in 1..Len(PlayersOf(entitiesMap))
    /\ LET players == PlayersOf(entitiesMap)
       IN  ghostResult' =
               [attackerId |-> players[i].id,
                result |-> calculateGhostDefender(players[i], BallOf(entitiesMap),
                                                  viewMode, players)]
    /\ step' = Did("GhostDefender", 0)
    /\ UNCHANGED <<reactVars, schedVars, viewMode, userPresent, showGhostDefense, render,
                   call>>

NextGhost == \E i \in 1..(MaxOthers + 1) : GhostDefender(i)

SpecGhost == InitGhost /\ [][NextGhost]_vars

----------------------------------------------------------------------------
(* Properties of the estimator (SpecGhost) *)

GhostComputed == ghostResult.attackerId # NoId

GhostAttacker ==
    LET players == PlayersOf(entitiesMap)
    IN  players[CHOOSE i \in 1..Len(players) : players[i].id = ghostResult.attackerId]

GhostDistToBasket == Dist(BASKET_POS(viewMode), GhostAttacker.position)

\* the candidate defender position: attacker position + unit vector * gap
GhostCandidate ==
    LET a == GhostAttacker.position
        b == BASKET_POS(viewMode)
        d == IF GhostDistToBasket = 0 THEN 1 ELSE GhostDistToBasket
        gap == ghostResult.result.gap
    IN  Pos(a.x + RDiv((b.x - a.x) * gap, d), a.y + RDiv((b.y - a.y) * gap, d))

ScreenStepPerEntity(attacker, acc, other) ==
    IF other.id = attacker.id THEN acc
    ELSE
    LET minDist == ghostRadius * FP + getPlayerRadius(other)
        direct == ScreenStepDirectOnly(attacker, acc, other)
        segSq == distToSegmentSq(other.position, acc.position, attacker.position)
    IN  IF direct # acc THEN direct
        ELSE IF segSq < minDist * minDist
        THEN [acc EXCEPT !.isScreened = TRUE,
                         !.screenDisplacement = @ + (minDist - ISqrt(segSq))]
        ELSE acc

\* C9: both screen checks are evaluated for every other roster entity whatever
\* earlier entities triggered, so screenDisplacement is the sum of the
\* contributions of all obstructing entities.
C9_ScreensAccumulateOverEntities ==
    GhostComputed =>
        LET ref == FoldSeq(LAMBDA acc, other : ScreenStepPerEntity(GhostAttacker, acc, other),
                           [position |-> GhostCandidate, isScreened |-> FALSE,
                            screenDisplacement |-> 0],
                           PlayersOf(entitiesMap), 1)
        IN  /\ ghostResult.result.screenDisplacement = ref.screenDisplacement
            /\ ghostResult.result.isScreened = ref.isScreened

\* s stands on the straight segment from a to b
OnSegment(s, a, b) ==
    LET cross == (s.x - a.x) * (b.y - a.y) - (s.y - a.y) * (b.x - a.x)
        dot == (s.x - a.x) * (b.x - a.x) + (s.y - a.y) * (b.y - a.y)
    IN  cross = 0 /\ dot >= 0 /\ dot <= DistSq(a, b)

\* a screener for the computed ghost defender: another player on the straight line
\* from the attacker to the basket, within combined radii of the candidate position
IsLineScreener(s) ==
    /\ s.id # GhostAttacker.id
    /\ OnSegment(s.position, GhostAttacker.position, BASKET_POS(viewMode))
    /\ DistSq(s.position, GhostCandidate)
           < (ghostRadius * FP + getPlayerRadius(s)) * (ghostRadius * FP + getPlayerRadius(s))

GhostHasBall == BallOf(entitiesMap).ownerId = ghostResult.attackerId

----------------------------------------------------------------------------
(* TacticsBoard.tsx: one render of the board, step by step.                 *)
(*                                                                          *)
(* Here frames hold geometry: frames[i] = [entitiesMap, actionsMap] with    *)
(* the entity list and the action list of the current view mode.  During   *)
(* playback the live entitiesMap and actionsMap are the objects of          *)
(* frames[currentFrameIndex] (the handlers load them by reference), so a    *)
(* write into one is a write into the other.                                *)

MaxRenders == 2
ProgressValues == {0, 30, 70}

P(x, y) == Pos(x * FP, y * FP)

Action(playerId, type, path, speed) ==
    [playerId |-> playerId, type |-> type, path |-> path, speed |-> speed]

GeoFrame(entities, acts) == [entitiesMap |-> entities, actionsMap |-> acts]

\* p1 sprints with the ball to a spot next to p2
DriveFrames ==
    <<GeoFrame(<<PlayerEntity("p1", P(300, 187), 180, NoProfile),
                 PlayerEntity("p2", P(200, 187), 0, NoProfile),
                 BallEntity("ball", P(300, 187), "p1")>>,
               <<Action("p1", "move",
                        <<P(300, 187), P(270, 187), P(240, 187), P(210, 187)>>, "sprint")>>),
      GeoFrame(<<PlayerEntity("p1", P(210, 187), 180, NoProfile),
                 PlayerEntity("p2", P(200, 187), 0, NoProfile),
                 BallEntity("ball", P(210, 187), "p1")>>,
               <<>>)>>

\* p2 stands close to p1 and is taken off the board in the next frame
LeaveFrames ==
    <<GeoFrame(<<PlayerEntity("p1", P(300, 100), 0, NoProfile),
                 PlayerEntity("p2", P(310, 100), 0, NoProfile),
                 BallEntity("ball", P(300, 100), "p1")>>,
               <<>>),
      GeoFrame(<<PlayerEntity("p1", P(300, 150), 90, NoProfile),
                 BallEntity("ball", P(300, 150), "p1")>>,
               <<>>)>>

\* p1 passes to p2 past a defender, nobody is in anybody's way
PassFrames ==
    <<GeoFrame(<<PlayerEntity("p1", P(500, 187), 170, NoProfile),
                 PlayerEntity("p2", P(450, 60), 0, NoProfile),
                 [PlayerEntity("d1", P(600, 300), 0, NoProfile) EXCEPT !.team = "blue"],
                 BallEntity("ball", P(500, 187), "p1")>>,
               <<Action("p1", "pass", <<P(500, 187), P(450, 60)>>, "jog")>>),
      GeoFrame(<<PlayerEntity("p1", P(500, 187), -170, NoProfile),
                 PlayerEntity("p2", P(450, 60), 0, NoProfile),
                 [PlayerEntity("d1", P(620, 320), 0, NoProfile) EXCEPT !.team = "blue"],
                 BallEntity("ball", P(450, 60), "p2")>>,
               <<>>)>>

\* p1, first in the list, stands close to p2 and is taken off the board in the
\* next frame
BenchFrames ==
    <<GeoFrame(<<PlayerEntity("p1", P(310, 100), 45, NoProfile),
                 PlayerEntity("p2", P(300, 100), 0, NoProfile),
                 BallEntity("ball", P(300, 100), "p2")>>,
               <<>>),
      GeoFrame(<<PlayerEntity("p2", P(300, 150), 90, NoProfile),
                 BallEntity("ball", P(300, 150), "p2")>>,
               <<>>)>>

\* p1 has several actions, a shot among them, while p2 sets a screen; after the
\* shot the ball is nobody's and p1 runs back
ShotFrames ==
    <<GeoFrame(<<PlayerEntity("p1", P(400, 187), 180, NoProfile),
                 PlayerEntity("p2", P(200, 300), 0, NoProfile),
                 BallEntity("ball", P(400, 187), "p1")>>,
               <<Action("p2", "screen", <<P(200, 300), P(220, 280)>>, "walk"),
                 Action("p1", "dribble", <<P(400, 187), P(380, 160), P(350, 150)>>, "jog"),
                 Action("p1", "shoot", <<P(400, 187), P(40, 187)>>, "sprint"),
                 Action("p1", "move", <<P(400, 187), P(300, 300)>>, "walk")>>),
      GeoFrame(<<PlayerEntity("p1", P(350, 150), 200, NoProfile),
                 PlayerEntity("p2", P(220, 280), 0, NoProfile),
                 BallEntity("ball", P(40, 187), NoId)>>,
               <<Action("p1", "move", <<P(350, 150), P(500, 150)>>, "jog")>>),
      GeoFrame(<<PlayerEntity("p1", P(500, 150), 0, NoProfile),
                 PlayerEntity("p2", P(220, 280), 0, NoProfile),
                 BallEntity("ball", P(60, 200), NoId)>>,
               <<>>)>>

\* p1 carries the ball through the gap between p2 and p3
SqueezeFrames ==
    <<GeoFrame(<<PlayerEntity("p1", P(220, 60), 90, NoProfile),
                 PlayerEntity("p2", P(200, 100), 0, NoProfile),
                 PlayerEntity("p3", P(240, 100), 0, NoProfile),
                 BallEntity("ball", P(220, 60), "p1")>>,
               <<>>),
      GeoFrame(<<PlayerEntity("p1", P(220, 110), 90, NoProfile),
                 PlayerEntity("p2", P(200, 100), 0, NoProfile),
                 PlayerEntity("p3", P(240, 100), 0, NoProfile),
                 BallEntity("ball", P(220, 110), "p1")>>,
               <<>>)>>

Scenarios ==
    {DriveFrames, LeaveFrames, PassFrames, BenchFrames, ShotFrames, SqueezeFrames}

Interpolating == isAnimationMode /\ currentFrameIndex < Len(frames) - 1

Ents(rendered) == [k \in 1..Len(rendered) |-> rendered[k].ent]

AfterReturn == IF showGhostDefense THEN "overlay" ELSE "done"

\* p.position.x = x; p.position.y = y on rendered entity k, and
\* ball.position = pos on the rendered ball: what the rendered list is afterwards
WriteRendered(rendered, k, pos) ==
    [j \in 1..Len(rendered) |->
        IF j = k \/ (rendered[k].alias.kind = "pathEnd"
                        /\ rendered[j].alias = rendered[k].alias)
        THEN [rendered[j] EXCEPT !.ent.position = pos]
        ELSE rendered[j]]

\* ... and what the frame list is afterwards
WriteFrames(fr, cur, alias, pos) ==
    IF alias.kind = "entity"
    THEN [fr EXCEPT ![cur + 1].entitiesMap[alias.idx].position = pos]
    ELSE IF alias.kind = "pathEnd"
    THEN [fr EXCEPT ![cur + 1].actionsMap[alias.idx].path =
                        [@ EXCEPT ![Len(@)] = pos]]
    ELSE fr

PlayerIndexes(rendered) ==
    LET idx == {k \in 1..Len(rendered) : rendered[k].ent.type = "player"}
        RECURSIVE Sorted(_)
        Sorted(set) ==
            IF set = {} THEN <<>>
            ELSE LET m == CHOOSE x \in set : \A y \in set : x <= y
                 IN  <<m>> \o Sorted(set \ {m})
    IN  Sorted(idx)

RenderFixed == <<currentFrameIndex, isPlaying, playbackSpeed, animationProgress,
                 isAnimationMode, schedVars, viewMode, userPresent, ghostResult,
                 showGhostDefense, call>>

\* getRenderEntities with the collision block entered whether playing or not
InterpolateThenAlwaysResolve ==
    /\ render.pc = "idle"
    /\ LET rendered ==
               IF ~Interpolating
               THEN [k \in 1..Len(entitiesMap) |->
                        [ent |-> entitiesMap[k], alias |-> [kind |-> "entity", idx |-> k]]]
               ELSE LET currentFrame == FrameAt(frames, currentFrameIndex)
                        nextFrame == FrameAt(frames, currentFrameIndex + 1)
                    IN  [k \in 1..Len(currentFrame.entitiesMap) |->
                            RenderedEntity(k, currentFrame.entitiesMap,
                                           nextFrame.entitiesMap,
                                           currentFrame.actionsMap, animationProgress)]
       IN  render' = [NoRender EXCEPT
                         !.pc = IF Interpolating THEN "ghosts"
                                ELSE AfterReturn,
                         !.renderedEntities = rendered,
                         !.before = frames,
                         !.raw = Ents(rendered),
                         !.renders = render.renders]
    /\ step' = Did("Interpolate", 0)
    /\ UNCHANGED <<frames, entitiesMap, actionsMap, RenderFixed>>

\* getRenderEntities, lines 269-407: the early return, or the interpolated list
Interpolate ==
    /\ render.pc = "idle"
    /\ LET rendered ==
               IF ~Interpolating
               THEN [k \in 1..Len(entitiesMap) |->
                        [ent |-> entitiesMap[k], alias |-> [kind |-> "entity", idx |-> k]]]
               ELSE LET currentFrame == FrameAt(frames, currentFrameIndex)
                        nextFrame == FrameAt(frames, currentFrameIndex + 1)
                    IN  [k \in 1..Len(currentFrame.entitiesMap) |->
                            RenderedEntity(k, currentFrame.entitiesMap,
                                           nextFrame.entitiesMap,
                                           currentFrame.actionsMap, animationProgress)]
       IN  render' = [NoRender EXCEPT
                         !.pc = IF Interpolating /\ isPlaying THEN "ghosts"
                                ELSE AfterReturn,
                         !.renderedEntities = rendered,
                         !.before = frames,
                         !.raw = Ents(rendered),
                         !.renders = render.renders]
    /\ step' = Did("Interpolate", 0)
    /\ UNCHANGED <<frames, entitiesMap, actionsMap, RenderFixed>>

\* lines 411-418: the ghost defenders of all players as obstacles
ComputeGhosts ==
    /\ render.pc = "ghosts"
    /\ LET players == PlayersOf(Ents(render.renderedEntities))
           ball == BallOf(Ents(render.renderedEntities))
           ghost(p) == calculateGhostDefender(p, ball, viewMode, players)
       IN  render' = [render EXCEPT
                         !.pc = "resolve",
                         !.pass = 0,
                         !.k = 1,
                         !.ghostObstacles =
                             [i \in 1..Len(players) |->
                                 [position |-> ghost(players[i]).position,
                                  radius |-> ghost(players[i]).radius]],
                         !.estimatorInputs = @ \cup {players},
                         !.estimatorCalls = @ \o [i \in 1..Len(players) |-> players[i].id]]
    /\ step' = Did("ComputeGhosts", 0)
    /\ UNCHANGED <<frames, entitiesMap, actionsMap, RenderFixed>>

\* lines 421-427: one turn of players.forEach in one of the two passes
ResolveStep ==
    /\ render.pc = "resolve"
    /\ LET rendered == render.renderedEntities
           idxs == PlayerIndexes(rendered)
           players == PlayersOf(Ents(rendered))
           lastTurn == render.k >= Len(idxs)
           lastPass == lastTurn /\ render.pass = 1
       IN  IF Len(idxs) = 0
           THEN /\ render' = [render EXCEPT !.pc = "ball", !.passes = 2]
                /\ UNCHANGED <<frames, entitiesMap, actionsMap>>
           ELSE LET kk == idxs[render.k]
                    p == rendered[kk].ent
                    pos == resolveCollisions(p.id, p.position.x, p.position.y, players,
                                             render.ghostObstacles)
                    newFrames == WriteFrames(frames, currentFrameIndex,
                                             rendered[kk].alias, pos)
                IN  /\ render' = [render EXCEPT
                                     !.renderedEntities = WriteRendered(rendered, kk, pos),
                                     !.obstaclesUsed = @ \cup {render.ghostObstacles},
                                     !.k = IF lastTurn THEN 1 ELSE @ + 1,
                                     !.pass = IF lastTurn THEN @ + 1 ELSE @,
                                     !.passes = IF lastTurn THEN @ + 1 ELSE @,
                                     !.pc = IF lastPass THEN "ball" ELSE "resolve"]
                    /\ frames' = newFrames
                    /\ entitiesMap' = FrameAt(newFrames, currentFrameIndex).entitiesMap
                    /\ actionsMap' = FrameAt(newFrames, currentFrameIndex).actionsMap
    /\ step' = Did("ResolveStep", 0)
    /\ UNCHANGED RenderFixed

\* lines 429-477: the ball is put on its pass or shot path, or beside its owner
BallOffset ==
    /\ render.pc = "ball"
    /\ LET rendered == render.renderedEntities
           ents == Ents(rendered)
           b == IF \E k \in 1..Len(ents) : ents[k].type = "ball"
                THEN CHOOSE k \in 1..Len(ents) :
                         ents[k].type = "ball" /\ \A j \in 1..(k - 1) : ents[j].type # "ball"
                ELSE 0
           ballAction == FindAction(actionsMap, ents[b].ownerId, BallTypes)
           onPath == ballAction # 0 /\ Len(actionsMap[ballAction].path) >= 2 /\ isPlaying
           path == actionsMap[ballAction].path
           t == LocalProgress(animationProgress, actionsMap[ballAction].speed)
           o == IndexOfId(ents, ents[b].ownerId)
           moved == b # 0 /\ ents[b].ownerId # NoId /\ (onPath \/ o # 0)
           pos == IF onPath
                  THEN IF t >= ONE THEN path[Len(path)] ELSE getPointOnSpline(path, t)
                  ELSE BallBesideOwner(ents[o])
           \* the rendered ball object stays the one it was; its position object is new
           stored == rendered[b].alias.kind = "entity"
           newAlias == IF stored THEN rendered[b].alias
                       ELSE IF onPath /\ t >= ONE
                            THEN [kind |-> "pathEnd", idx |-> ballAction]
                            ELSE Fresh0
           newFrames == IF stored
                        THEN WriteFrames(frames, currentFrameIndex, rendered[b].alias, pos)
                        ELSE frames
       IN  IF moved
           THEN /\ render' = [render EXCEPT
                                 !.pc = AfterReturn,
                                 !.renderedEntities =
                                     [rendered EXCEPT ![b] = [ent |-> [ents[b] EXCEPT
                                                                          !.position = pos],
                                                              alias |-> newAlias]]]
                /\ frames' = newFrames
                /\ entitiesMap' = FrameAt(newFrames, currentFrameIndex).entitiesMap
                /\ actionsMap' = FrameAt(newFrames, currentFrameIndex).actionsMap
           ELSE /\ render' = [render EXCEPT !.pc = AfterReturn]
                /\ UNCHANGED <<frames, entitiesMap, actionsMap>>
    /\ step' = Did("BallOffset", 0)
    /\ UNCHANGED RenderFixed

\* GhostDefenseLayer (unnamed/part_005, lines 14-41): the overlay works out the ghost
\* defender of every player of the team with the ball from the rendered entities
GhostDefenseLayer ==
    /\ render.pc = "overlay"
    /\ LET entities == Ents(render.renderedEntities)
           ball == BallOf(entities)
           o == IF ball = NoBall THEN 0 ELSE IndexOfId(entities, ball.ownerId)
           offenseTeam == IF o # 0 THEN entities[o].team ELSE "red"
           offensePlayers ==
               SelectSeq(entities, LAMBDA e : e.type = "player" /\ e.team = offenseTeam)
           shown == [i \in 1..Len(offensePlayers) |->
                        [attackerId |-> offensePlayers[i].id,
                         result |-> calculateGhostDefender(offensePlayers[i], ball,
                                                           viewMode, offensePlayers)]]
       IN  /\ render' = [render EXCEPT
                            !.pc = "done",
                            !.estimatorInputs =
                                IF Len(offensePlayers) = 0 THEN @ ELSE @ \cup {offensePlayers},
                            !.estimatorCalls =
                                @ \o [i \in 1..Len(shown) |-> shown[i].attackerId]]
           /\ ghostResult' = IF Len(shown) = 0 THEN ghostResult ELSE shown[Len(shown)]
    /\ step' = Did("GhostDefenseLayer", 0)
    /\ UNCHANGED <<frames, entitiesMap, actionsMap, currentFrameIndex, isPlaying,
                   playbackSpeed, animationProgress, isAnimationMode, schedVars, viewMode,
                   userPresent, showGhostDefense, call>>

\* the scheduler moves time on (a tick, a pause, a scrub within the frame) and the
\* board is rendered again
NextTime(progress, playing) ==
    /\ render.pc = "done"
    /\ render.renders + 1 < MaxRenders
    /\ isAnimationMode
    /\ animationProgress' = progress
    /\ isPlaying' = playing
    /\ render' = [NoRender EXCEPT !.renders = render.renders + 1]
    /\ step' = Did("NextTime", progress)
    /\ UNCHANGED <<frames, entitiesMap, actionsMap, currentFrameIndex, playbackSpeed,
                   isAnimationMode, schedVars, viewMode, userPresent, ghostResult,
                   showGhostDefense, call>>

InitRender ==
    /\ frames \in Scenarios
    /\ currentFrameIndex \in 0..1
    /\ isAnimationMode \in BOOLEAN
    /\ isPlaying \in {FALSE, isAnimationMode}
    /\ animationProgress \in ProgressValues
    /\ playbackSpeed = 100
    /\ entitiesMap = FrameAt(frames, currentFrameIndex).entitiesMap
    /\ actionsMap = FrameAt(frames, currentFrameIndex).actionsMap
    /\ viewMode = "full"
    /\ isSwitchingFrame = FALSE
    /\ animationRef = 0
    /\ rafQueue = {}
    /\ pendingEffects = NoEffects
    /\ userPresent = TRUE
    /\ ghostResult = NoResult
    /\ showGhostDefense \in BOOLEAN
    /\ render = NoRender
    /\ call = NoCall
    /\ step = Did("init", 0)

NextRender ==
    \/ Interpolate
    \/ ComputeGhosts
    \/ ResolveStep
    \/ BallOffset
    \/ GhostDefenseLayer
    \/ \E progress \in ProgressValues, playing \in BOOLEAN : NextTime(progress, playing)

SpecRender == InitRender /\ [][NextRender]_vars

Rendered(id) == LET k == IndexOfId(Ents(render.renderedEntities), id)
                IN  render.renderedEntities[k].ent

Raw(id) == render.raw[IndexOfId(render.raw, id)]

RenderedPlayerIds == {render.raw[k].id : k \in {j \in 1..Len(render.raw) :
                                                    render.raw[j].type = "player"}}

\* C1: a finished render has left the frame list as it was when the render began
C1_RenderLeavesFramesUnchanged ==
    render.pc = "done" => frames = render.before

ResolverApplied == render.passes > 0

RenderedEqualsRaw ==
    \A id \in RenderedPlayerIds : Rendered(id).position = Raw(id).position

RawOverlap ==
    \E a \in RenderedPlayerIds, b \in RenderedPlayerIds :
        /\ a # b
        /\ DistSq(Raw(a).position, Raw(b).position)
               < (getPlayerRadius(Raw(a)) + getPlayerRadius(Raw(b)))
                     * (getPlayerRadius(Raw(a)) + getPlayerRadius(Raw(b)))

\* C6 as stated: in a finished render the collision resolver has been applied if
\* and only if isPlaying, and with isPlaying false every rendered player position is
\* the raw interpolated one
C6_ResolverAppliedIffPlaying ==
    render.pc = "done" =>
        /\ ResolverApplied <=> isPlaying
        /\ ~isPlaying => RenderedEqualsRaw

\* C6, amended: the resolver has been applied if and only if isPlaying and the render
\* interpolates between two frames (animation mode, not the last frame); with
\* isPlaying false every rendered player position is the raw interpolated one
C6_ResolverAppliedIffPlayingBetweenFrames ==
    render.pc = "done" =>
        /\ ResolverApplied <=> (isPlaying /\ Interpolating)
        /\ ~isPlaying => RenderedEqualsRaw

\* a paused render between two frames in which two players overlap
C6_Witness ==
    /\ render.pc = "done"
    /\ ~isPlaying
    /\ Interpolating
    /\ RawOverlap

GhostsOfRaw ==
    LET players == PlayersOf(render.raw)
        ball == BallOf(render.raw)
    IN  [i \in 1..Len(players) |->
            [position |-> calculateGhostDefender(players[i], ball, viewMode,
                                                 players).position,
             radius |-> calculateGhostDefender(players[i], ball, viewMode,
                                               players).radius]]

\* C7: within one render the estimator is called at most once per player, only with
\* raw interpolated poses, and every collision pass uses the obstacles computed from
\* the raw poses
C7_GhostsOnceFromRawPoses ==
    /\ \A id \in RenderedPlayerIds :
           Cardinality({i \in 1..Len(render.estimatorCalls) :
                            render.estimatorCalls[i] = id}) <= 1
    /\ \A players \in render.estimatorInputs :
           \A i \in 1..Len(players) : players[i].position = Raw(players[i].id).position
    /\ \A obstacles \in render.obstaclesUsed : obstacles = GhostsOfRaw

\* the same with the overlay switched off: getRenderEntities alone
GhostsOnceFromRawPosesInRender ==
    ~showGhostDefense => C7_GhostsOnceFromRawPoses

----------------------------------------------------------------------------
(* Single calls of the pure functions.  The arguments of one call are drawn *)
(* at the start, the function is applied to them, and its results are kept  *)
(* in call.out.                                                             *)

Pending(fn, args) == [fn |-> fn, args |-> args, out |-> <<>>, done |-> FALSE]

\* the function fn returns out
Return(fn, out) ==
    /\ call.fn = fn
    /\ ~call.done
    /\ call' = [call EXCEPT !.out = out, !.done = TRUE]
    /\ step' = Did(fn, 0)
    /\ UNCHANGED <<reactVars, schedVars, viewMode, userPresent, ghostResult,
                   showGhostDefense, render>>

Returned(fn) == call.fn = fn /\ call.done

\* getZoneName(pos, BASKET_POS, viewMode): args = <<offset from the basket, viewMode>>.
\* Offsets along and across the court, in court units; at 25 units per metre the
\* corner band (6.7 m, 8.5 m) is (167.5, 212.5) and 7.24 m is 181 units.
ZoneAlong == {-30, 0, 20, 60, 100, 150, 170, 175, 181, 190, 200, 212, 213, 250}
ZoneAcross == {-170, -160, -150, 0, 100, 150, 160}

ZoneInputs ==
    {Pending("getZoneName", <<<<a, l>>, vm>>) :
         a \in ZoneAlong, l \in ZoneAcross, vm \in {"full", "half"}}

ZoneNameCall ==
    Return("getZoneName",
           <<getZoneName(PlaceAt(call.args[2], call.args[1]), BASKET_POS(call.args[2]),
                         call.args[2])>>)

\* calculateGhostDefender for an attacker who holds the ball, once with shooting
\* percentage a and once with b > a in every zone:
\* args = <<offset from the basket, viewMode, a, b>>, out = <<gap(a), gap(b)>>
GapOffsets == {<<10, 0>>, <<20, 0>>, <<60, 0>>, <<100, 0>>, <<150, 0>>, <<200, 0>>,
               <<300, 0>>, <<60, 160>>}
GapPcts == {0, 20, 30, 35, 36, 40, 45, 50, 55, 60, 70, 100}

OnBallInputs ==
    {Pending("onBallGap", <<off, vm, ab[1], ab[2]>>) :
         off \in GapOffsets, vm \in {"full", "half"},
         ab \in {pq \in GapPcts \X GapPcts : pq[1] < pq[2]}}

BallHandler(vm, off, pct) ==
    PlayerEntity(PlayerIds[1], PlaceAt(vm, off), 0, ShooterProfile(pct))

OnBallGapOf(vm, off, pct) ==
    LET attacker == BallHandler(vm, off, pct)
    IN  calculateGhostDefender(attacker,
                               BallEntity("ball", attacker.position, attacker.id),
                               vm, <<attacker>>).gap

OnBallGapCall ==
    Return("onBallGap",
           <<OnBallGapOf(call.args[2], call.args[1], call.args[3]),
             OnBallGapOf(call.args[2], call.args[1], call.args[4])>>)

\* resolveCollisions(activePlayerId, newX, newY, allPlayers, obstacles), applied
\* to the proposed position and then once more to its own result:
\* args = <<proposed position, allPlayers, obstacles>>, out = <<first, second>>
ActiveId == PlayerIds[1]

\* the active player as stored (where the drag began), plain or big
ActivePlayers ==
    {PlayerEntity(ActiveId, Pos(50 * FP, 50 * FP), 0, pr) : pr \in {NoProfile, BigProfile}}

ProposedPositions ==
    {Pos(x * FP, y * FP) : x \in {100, 105, 114, 128, 129, 160}, y \in {100, 110, 130}}

OtherPlayerLists ==
    {<<>>,
     <<PlayerEntity(PlayerIds[2], Pos(100 * FP, 100 * FP), 0, NoProfile)>>,
     <<PlayerEntity(PlayerIds[2], Pos(100 * FP, 100 * FP), 0, BigProfile)>>,
     <<PlayerEntity(PlayerIds[2], Pos(100 * FP, 100 * FP), 0, NoProfile),
       PlayerEntity(PlayerIds[3], Pos(130 * FP, 100 * FP), 0, NoProfile)>>}

ObstacleLists ==
    {<<>>,
     <<[position |-> Pos(114 * FP, 130 * FP), radius |-> ghostRadius * FP]>>}

ResolveInputs ==
    {Pending("resolveCollisions", <<c, <<a>> \o others, obs>>) :
         c \in ProposedPositions, a \in ActivePlayers,
         others \in OtherPlayerLists, obs \in ObstacleLists}

ResolveTwice(c, allPlayers, obstacles) ==
    LET first == resolveCollisions(ActiveId, c.x, c.y, allPlayers, obstacles)
    IN  <<first, resolveCollisions(ActiveId, first.x, first.y, allPlayers, obstacles)>>

ResolveCollisionsCall ==
    Return("resolveCollisions", ResolveTwice(call.args[1], call.args[2], call.args[3]))

\* The interpolator applied to one entity of the current frame (the callback of
\* currentEntities.map, lines 282-407) at progress p and at a later progress q:
\* args = <<currentEntities, nextEntities, currentActions, k, p, q>>,
\* out = <<rendered at p, rendered at q>>, each [ent, extras]
RenderOne(currentEntities, nextEntities, currentActions, k, progress) ==
    [ent |-> RenderedEntity(k, currentEntities, nextEntities, currentActions,
                            progress).ent,
     extras |-> RenderedExtras(k, currentEntities, nextEntities, currentActions,
                               progress)]

RenderEntityCall ==
    Return("renderEntity",
           <<RenderOne(call.args[1], call.args[2], call.args[3], call.args[4],
                       call.args[5]),
             RenderOne(call.args[1], call.args[2], call.args[3], call.args[4],
                       call.args[6])>>)

SpeedTags == {"walk", "jog", "sprint", "none"}
ProgressGrid == {0, 20, 39, 40, 41, 50, 66, 67, 80, 99, 100}
ProgressPairs == {pq \in ProgressGrid \X ProgressGrid : pq[1] <= pq[2]}

\* p1 holds the ball at (100, 100) and is at (200, 150) in the next frame
TravelFrom == <<PlayerEntity("p1", P(100, 100), 0, NoProfile),
                BallEntity("ball", P(100, 100), "p1")>>
TravelTo == <<PlayerEntity("p1", P(200, 150), 90, NoProfile),
              BallEntity("ball", P(200, 150), "p1")>>

TravelPaths ==
    {<<P(100, 100), P(200, 150)>>,
     <<P(100, 100), P(150, 80), P(210, 160)>>,
     <<P(100, 100), P(130, 140), P(170, 90), P(200, 150)>>}

TravelInputs ==
    {Pending("renderEntity",
             <<TravelFrom, TravelTo, <<Action("p1", type, path, speed)>>, k, pq[1], pq[2]>>) :
         type \in {"move", "steal", "block", "pass"}, path \in TravelPaths,
         speed \in SpeedTags, k \in {1, 2}, pq \in ProgressPairs}

\* the spline asked at every t, also at t = 1
PathPositionUnguarded(path, t) == getPointOnSpline(path, t)

\* The position along an action's path at parameter t (lines 362-366): the
\* last control point from t = 1 on, the spline before
PathPosition(path, t) ==
    IF t >= ONE THEN path[Len(path)] ELSE getPointOnSpline(path, t)

\* args = <<path, t>>, out = <<position>>
KnotPaths ==
    {<<P(100, 100), P(200, 150)>>,
     <<P(100, 100), P(150, 80), P(210, 160)>>,
     <<P(300, 187), P(270, 187), P(240, 187), P(210, 187)>>,
     <<P(100, 100), P(130, 140), P(170, 90), P(200, 150), P(260, 40)>>,
     <<P(50, 300), P(90, 250), P(60, 200), P(120, 210), P(160, 260), P(220, 240)>>}

KnotParameters == {0, 10, 20, 25, 33, 40, 50, 60, 75, 80, 99, 100}

PathInputs == {Pending("pathPosition", <<path, t>>) : path \in KnotPaths, t \in KnotParameters}

PathPositionCall ==
    Return("pathPosition", <<PathPosition(call.args[1], call.args[2])>>)

\* A player turning from one stored rotation to another, moved linearly or along
\* a walked path.  Rotations set by the rotation handle and by handleAddFrame are
\* atan2 angles plus 90 (and the layer's offset); rotations loaded with a tactic
\* or a recommendation are whatever number the data holds (line 2888).
StoredRotations == {-170, -90, 0, 90, 170, 270, 600, 720, -400}

TurnInputs ==
    {Pending("renderEntity",
             <<<<PlayerEntity("p1", P(100, 100), r1, NoProfile)>>,
               <<PlayerEntity("p1", P(200, 150), r2, NoProfile)>>,
               acts, 1, pq[1], pq[2]>>) :
         r1 \in StoredRotations, r2 \in StoredRotations,
         acts \in {<<>>, <<Action("p1", "move", <<P(100, 100), P(200, 150)>>, "walk")>>},
         pq \in {<<0, 50>>, <<25, 75>>, <<50, 100>>}}

\* getPlayerRadius(player) for two players: args = <<player, player>>,
\* out = <<radius, radius>>
ParsedHeights == {<<>>, <<5, 10>>, <<6, 0>>, <<6, 1>>, <<6, 9>>, <<7, 4>>, <<8, 11>>, <<6, NaN>>}
ParsedWeights == {0, NaN, 150, 180, 181, 190, 250, 300, 400}

SizedProfiles ==
    {NoProfile}
        \cup {[hasStats |-> TRUE, height |-> h, weight |-> w, hotZones |-> <<>>] :
                  h \in ParsedHeights, w \in ParsedWeights}

RadiusInputs ==
    {Pending("getPlayerRadius",
             <<PlayerEntity("p1", P(100, 100), 0, a), PlayerEntity("p2", P(200, 100), 0, b)>>) :
         a \in SizedProfiles, b \in SizedProfiles}

PlayerRadiusCall ==
    Return("getPlayerRadius",
           <<getPlayerRadius(call.args[1]), getPlayerRadius(call.args[2])>>)

\* an action whose path has no or one control point
DegeneratePaths == {<<>>, <<P(100, 100)>>}

DegenerateInputs ==
    {Pending("renderEntity",
             <<TravelFrom, TravelTo, <<Action("p1", type, path, speed)>>, k, pq[1], pq[2]>>) :
         type \in MovementTypes \cup BallTypes, path \in DegeneratePaths,
         speed \in SpeedTags, k \in {1, 2},
         pq \in {<<0, 20>>, <<20, 50>>, <<40, 80>>, <<50, 100>>, <<66, 99>>}}

\* The collision block of a playing render (lines 410-427) applied to the raw
\* interpolated players: args = <<players, ball, viewMode>>,
\* out = [ghostObstacles, players after the two passes]
GhostObstacles(players, ball, vm) ==
    [k \in 1..Len(players) |->
        LET g == calculateGhostDefender(players[k], ball, vm, players)
        IN  [position |-> g.position, radius |-> g.radius]]

\* one pass of players.forEach: each player's position is corrected in place
CollisionPass(players, ghostObstacles) ==
    FoldSeq(LAMBDA ps, k :
                [ps EXCEPT ![k].position =
                    resolveCollisions(ps[k].id, ps[k].position.x, ps[k].position.y,
                                      ps, ghostObstacles)],
            players, [k \in 1..Len(players) |-> k], 1)

CollisionBlock(players, ball, vm) ==
    LET ghostObstacles == GhostObstacles(players, ball, vm)
    IN  [ghostObstacles |-> ghostObstacles,
         players |-> CollisionPass(CollisionPass(players, ghostObstacles),
                                   ghostObstacles)]

\* a tall, heavy player who shoots pct per cent from every zone
BigShooterProfile(pct) ==
    [ShooterProfile(pct) EXCEPT !.height = <<6, 9>>, !.weight = 250]

\* distances from the basket along the court, in court units
RimOffsets == {<<0, 0>>, <<10, 0>>, <<15, 0>>, <<16, 0>>, <<30, 0>>, <<43, 0>>,
               <<44, 0>>, <<52, 0>>, <<60, 0>>, <<100, 50>>, <<200, 0>>, <<300, 100>>}
BlockProfiles == {NoProfile, BigProfile, ShooterProfile(50), BigShooterProfile(50),
                  BigShooterProfile(20)}
BlockBalls == {"none", "held", "loose"}

BlockBall(kind, p) ==
    IF kind = "held" THEN BallEntity("ball", p.position, p.id)
    ELSE IF kind = "loose" THEN BallEntity("ball", Pos(400 * FP, 300 * FP), NoId)
    ELSE NoBall

\* a second player far from the first and from its defender
FarPlayer == PlayerEntity(PlayerIds[2], Pos(600 * FP, 40 * FP), 0, NoProfile)

BlockInputs ==
    {Pending("collisionBlock",
             <<<<PlayerEntity(PlayerIds[1], PlaceAt(vm, off), 0, pr)>> \o rest,
               BlockBall(b, PlayerEntity(PlayerIds[1], PlaceAt(vm, off), 0, pr)), vm>>) :
         vm \in {"full", "half"}, off \in RimOffsets, pr \in BlockProfiles,
         b \in BlockBalls, rest \in {<<>>, <<FarPlayer>>}}

CollisionBlockCall ==
    Return("collisionBlock", CollisionBlock(call.args[1], call.args[2], call.args[3]))

----------------------------------------------------------------------------
(* The specification of single calls *)

CallInputs ==
    ZoneInputs \cup OnBallInputs \cup ResolveInputs \cup TravelInputs
        \cup PathInputs \cup TurnInputs \cup RadiusInputs
        \cup DegenerateInputs \cup BlockInputs

InitCall ==
    /\ IdlePlayback
    /\ viewMode = "full"
    /\ entitiesMap = <<>>
    /\ ghostResult = NoResult
    /\ call \in CallInputs
    /\ step = Did("init", 0)

NextCall ==
    \/ ZoneNameCall
    \/ OnBallGapCall
    \/ ResolveCollisionsCall
    \/ RenderEntityCall
    \/ PathPositionCall
    \/ PlayerRadiusCall
    \/ CollisionBlockCall

SpecCall == InitCall /\ [][NextCall]_vars

----------------------------------------------------------------------------
(* Properties of the pure functions (SpecCall) *)

ZoneDistSq == DistSq(PlaceAt(call.args[2], call.args[1]), BASKET_POS(call.args[2]))

\* the distance to the basket lies in the corner band and the lateral offset is
\* at most 80% of the half-court span
ZoneInBandNotLateral ==
    /\ Returned("getZoneName")
    /\ MetersGT(ZoneDistSq, 670) /\ MetersLT(ZoneDistSq, 850)
    /\ 10 * Abs(call.args[1][2])
           <= 4 * (IF call.args[2] = "half" THEN COURT_WIDTH ELSE COURT_HEIGHT)

GapZone == getZoneName(PlaceAt(call.args[2], call.args[1]), BASKET_POS(call.args[2]),
                       call.args[2])
GapRimLimit ==
    Max(0, Dist(BASKET_POS(call.args[2]), PlaceAt(call.args[2], call.args[1]))
               - RIM_PROTECTION_BUFFER * FP)
GapBaseline ==
    IF GapZone = "Restricted Area" THEN 60
    ELSE IF GapZone = "In The Paint (Non-RA)" THEN 50
    ELSE IF GapZone = "Mid-Range" THEN 40 ELSE 35
GapUnclamped(pct) == ((45 * 100 - (pct - GapBaseline) * 300) * FP) \div 100
GapExpected(pct) ==
    LET g == GapUnclamped(pct)
        c == IF g < 30 * FP THEN 30 * FP ELSE IF g > 150 * FP THEN 150 * FP ELSE g
    IN  IF c > GapRimLimit THEN GapRimLimit ELSE c
GapInside(pct) ==
    /\ GapUnclamped(pct) > 30 * FP /\ GapUnclamped(pct) < 150 * FP
    /\ GapUnclamped(pct) < GapRimLimit

----------------------------------------------------------------------------
(* resolveCollisions (SpecCall) *)

\* the bodies the active player is tested against: the other players, then the
\* obstacles
ResolveBodies ==
    [i \in 1..(Len(call.args[2]) - 1) |->
         [position |-> call.args[2][i + 1].position,
          radius |-> getPlayerRadius(call.args[2][i + 1])]]
    \o call.args[3]

\* the distance from c to the body's centre is less than the sum of the radii
Overlapping(c, body) ==
    DistSq(c, body.position)
        < (getPlayerRadius(call.args[2][1]) + body.radius)
              * (getPlayerRadius(call.args[2][1]) + body.radius)

NoOverlapAt(c) ==
    \A i \in 1..Len(ResolveBodies) : ~Overlapping(c, ResolveBodies[i])

\* C13: resolveCollisions returns exactly the proposed position when it overlaps
\* no other player and no obstacle, and applied again to its own result it
\* returns that result unchanged whenever the result overlaps nothing.
C13_ResolveKeepsFreePositions ==
    Returned("resolveCollisions") =>
        /\ NoOverlapAt(call.args[1]) => call.out[1] = call.args[1]
        /\ NoOverlapAt(call.out[1]) => call.out[2] = call.out[1]

\* a proposed position that overlapped was moved to one that overlaps nothing,
\* and the second application left it there
C13_Witness ==
    /\ Returned("resolveCollisions")
    /\ ~NoOverlapAt(call.args[1])
    /\ call.out[1] # call.args[1]
    /\ NoOverlapAt(call.out[1])
    /\ call.out[2] = call.out[1]

\* the bodies whose centre is the proposed position itself
Coinciding == {i \in 1..Len(ResolveBodies) : ResolveBodies[i].position = call.args[1]}

\* the call without the first of the other players
WithoutFirstOther ==
    resolveCollisions(ActiveId, call.args[1].x, call.args[1].y,
                      <<call.args[2][1]>> \o SubSeq(call.args[2], 3, Len(call.args[2])),
                      call.args[3])

\* C14: a body whose centre is exactly the active position (distance 0) causes no
\* correction: when it is the first body tested the result is that of the call
\* without it, and when no other body overlaps the proposed position the
\* proposed position is returned unchanged.
C14_CoincidingCentreNotCorrected ==
    Returned("resolveCollisions") =>
        /\ 1 \in Coinciding => call.out[1] = WithoutFirstOther
        /\ \A i \in Coinciding :
               (\A j \in 1..Len(ResolveBodies) :
                    j # i => ~Overlapping(call.args[1], ResolveBodies[j]))
                   => call.out[1] = call.args[1]

\* the proposed position is the centre of another player, nothing else overlaps
\* it, and it was returned as proposed
C14_Witness ==
    /\ Returned("resolveCollisions")
    /\ \E i \in Coinciding :
           \A j \in 1..Len(ResolveBodies) :
               j # i => ~Overlapping(call.args[1], ResolveBodies[j])
    /\ call.out[1] = call.args[1]

----------------------------------------------------------------------------
(* The interpolator applied to one entity (SpecCall) *)

RenderArgs ==
    [currentEntities |-> call.args[1], nextEntities |-> call.args[2],
     currentActions |-> call.args[3], entity |-> call.args[1][call.args[4]],
     p |-> call.args[5], q |-> call.args[6]]

Matched == IndexOfId(RenderArgs.nextEntities, RenderArgs.entity.id) # 0

Governing == GoverningAction(RenderArgs.entity, RenderArgs.currentActions)

\* the entity has a counterpart in the next frame and the action found for it
\* has at least two control points
GovernedByPath ==
    /\ Matched
    /\ Governing # 0
    /\ Len(RenderArgs.currentActions[Governing].path) >= 2

GoverningPath == RenderArgs.currentActions[Governing].path

\* progress (hundredths) times the multiplier (tenths) is at least 1
MotionComplete(progress) ==
    progress * SpeedMultiplier(RenderArgs.currentActions[Governing].speed) >= 10 * ONE

\* C15: for an entity governed by an action with at least two control points and
\* speed multiplier m, the interpolated position is the final control point at
\* every progress p with p * m >= 1, and at every later progress q as well.
C15_HoldsFinalPointOnceComplete ==
    Returned("renderEntity") /\ GovernedByPath /\ MotionComplete(RenderArgs.p) =>
        /\ call.out[1].ent.position = GoverningPath[Len(GoverningPath)]
        /\ call.out[2].ent.position = GoverningPath[Len(GoverningPath)]

\* a sprint is complete at progress 0.4, before the frame boundary, at a final
\* control point that is not where the next frame has the entity
C15_Witness ==
    /\ Returned("renderEntity") /\ GovernedByPath
    /\ RenderArgs.currentActions[Governing].speed = "sprint"
    /\ RenderArgs.p = 40 /\ RenderArgs.q = 50
    /\ GoverningPath[Len(GoverningPath)] = P(210, 160)
    /\ call.out[1].ent.position = P(210, 160)
    /\ call.out[2].ent.position = P(210, 160)

----------------------------------------------------------------------------
(* The position along a path (SpecCall) *)

\* the control points the parameter t (hundredths) falls on: k with t = k / (N - 1)
KnotsAt(path, t) == {k \in 0..(Len(path) - 1) : t * (Len(path) - 1) = k * ONE}

\* C16: for a path of N >= 2 control points the interpolated position at t = 0
\* is path[0] and at t = 1 is path[N - 1]; for N >= 3 the position at
\* t = k / (N - 1) is path[k], for every k in 0..N-1.
C16_PathPassesThroughControlPoints ==
    Returned("pathPosition") =>
        LET path == call.args[1]
            t == call.args[2]
        IN  /\ t = 0 => call.out[1] = path[1]
            /\ t = ONE => call.out[1] = path[Len(path)]
            /\ Len(path) >= 3 => \A k \in KnotsAt(path, t) : call.out[1] = path[k + 1]

\* the position at t = 3/5 of a six-point path is its fourth control point
C16_Witness ==
    /\ Returned("pathPosition")
    /\ Len(call.args[1]) = 6
    /\ call.args[2] = 60
    /\ call.out[1] = call.args[1][4]

----------------------------------------------------------------------------
(* Rotation between two player poses (SpecCall) *)

\* a player turning, moved linearly or along a walked path: t is the progress
Turning ==
    /\ Returned("renderEntity")
    /\ Matched
    /\ RenderArgs.entity.type = "player"
    /\ \A a \in 1..Len(RenderArgs.currentActions) :
           RenderArgs.currentActions[a].speed = "walk"
           /\ RenderArgs.currentActions[a].type = "move"

TurnFrom == RenderArgs.entity.rotation
TurnTo ==
    RenderArgs.nextEntities[IndexOfId(RenderArgs.nextEntities, RenderArgs.entity.id)].rotation

\* the deltas in [-180, 180] that lead from TurnFrom to the direction of TurnTo
ShortWays == {d \in -180..180 : (d - (TurnTo - TurnFrom)) % 360 = 0}

\* C17: the rotation between two player poses is the first rotation plus t
\* times a delta normalised into [-180, 180], so that the rotation sweeps at
\* most 180 degrees, for every pair of stored rotations.
C17_RotationTakesShortWay ==
    Turning =>
        \E d \in ShortWays :
            /\ call.out[1].ent.rotation = TurnFrom + RDiv(d * RenderArgs.p, ONE)
            /\ call.out[2].ent.rotation = TurnFrom + RDiv(d * RenderArgs.q, ONE)

\* the same for stored rotations less than 540 degrees apart
C17_RotationTakesShortWayWithin540 ==
    Turning /\ Abs(TurnTo - TurnFrom) < 540 => C17_RotationTakesShortWay

\* from 170 to -170 at t = 0.5 the rotation is 180
C17_HalfWayFrom170 ==
    /\ Turning
    /\ TurnFrom = 170 /\ TurnTo = -170
    /\ RenderArgs.p = 50
    /\ call.out[1].ent.rotation = 180

----------------------------------------------------------------------------
(* getPlayerRadius (SpecCall) *)

\* the player has stats with a height of feet and inches and a weight in pounds
Measured(player) ==
    /\ player.profile.hasStats
    /\ Len(player.profile.height) = 2
    /\ player.profile.height[1] # NaN /\ player.profile.height[2] # NaN
    /\ player.profile.weight # NaN

InchesOf(player) == player.profile.height[1] * 12 + player.profile.height[2]

\* 14 + 0.3 per inch above 72 + 0.05 per pound above 180, the bonus capped at 8,
\* in hundredths of a court unit
RadiusHundredths(player) ==
    Min(2200, 1400 + 30 * Max(InchesOf(player) - 72, 0)
                  + 5 * Max(player.profile.weight - 180, 0))

\* C18: getPlayerRadius is in [14, 22] for every player; it is 14 plus 0.3 per
\* inch of height above 72 plus 0.05 per pound of weight above 180, the bonus
\* capped at 8 (here to the nearest tenth), and it does not decrease when
\* height or weight increases.
C18_RadiusRangeFormulaMonotone ==
    Returned("getPlayerRadius") =>
        /\ \A i \in 1..2 :
               /\ baseRadius * FP <= call.out[i] /\ call.out[i] <= 22 * FP
               /\ Measured(call.args[i]) =>
                      Abs(call.out[i] * 10 - RadiusHundredths(call.args[i])) <= 5
               /\ ~call.args[i].profile.hasStats => call.out[i] = baseRadius * FP
        /\ (/\ Measured(call.args[1]) /\ Measured(call.args[2])
            /\ InchesOf(call.args[1]) <= InchesOf(call.args[2])
            /\ call.args[1].profile.weight <= call.args[2].profile.weight)
               => call.out[1] <= call.out[2]

\* a 6'1", 190 lb player has radius 14.8, a 6'9", 300 lb player the capped 22
C18_Witness ==
    /\ Returned("getPlayerRadius")
    /\ call.args[1].profile.height = <<6, 1>> /\ call.args[1].profile.weight = 190
    /\ call.args[2].profile.height = <<6, 9>> /\ call.args[2].profile.weight = 300
    /\ call.out = <<148, 220>>

----------------------------------------------------------------------------
(* Entities without a counterpart in the next frame (SpecRender) *)

\* the entities of the two frames the render began with
HeldFrom == FrameAt(render.before, currentFrameIndex).entitiesMap
HeldNext == FrameAt(render.before, currentFrameIndex + 1).entitiesMap

\* the positions in the current frame of the entities the next frame lacks
Unmatched == {k \in 1..Len(HeldFrom) : IndexOfId(HeldNext, HeldFrom[k].id) = 0}

HeldAsStored(k) ==
    /\ Len(render.renderedEntities) = Len(HeldFrom)
    /\ render.renderedEntities[k].ent.id = HeldFrom[k].id
    /\ render.renderedEntities[k].ent.position = HeldFrom[k].position
    /\ render.renderedEntities[k].ent.rotation = HeldFrom[k].rotation

\* C19: in a finished render between two frames, an entity of the current frame
\* without an entity of the same id in the next frame is in the rendered list at
\* its current-frame position and rotation, whatever the progress, playing or not.
C19_UnmatchedEntityHeld ==
    render.pc = "done" /\ Interpolating => \A k \in Unmatched : HeldAsStored(k)

\* the same for renders while not playing
C19_UnmatchedEntityHeldWhilePaused ==
    render.pc = "done" /\ Interpolating /\ ~isPlaying => \A k \in Unmatched : HeldAsStored(k)

\* a paused render half way between the frames holds an unmatched player
C19_HeldWhilePaused ==
    /\ render.pc = "done" /\ Interpolating /\ ~isPlaying
    /\ animationProgress = 30
    /\ Unmatched # {}

----------------------------------------------------------------------------
(* Actions with fewer than two control points (SpecCall) *)

\* the entity has a counterpart in the next frame and the action found for it
\* has fewer than two control points
GovernedByDegenerate ==
    /\ Returned("renderEntity")
    /\ Matched
    /\ Governing # 0
    /\ Len(RenderArgs.currentActions[Governing].path) < 2

\* the entity rendered from the same frames without any action
WithoutAction(progress) ==
    RenderOne(RenderArgs.currentEntities, RenderArgs.nextEntities, <<>>, call.args[4],
              progress)

LinearPosition(progress) ==
    LET next == RenderArgs.nextEntities[IndexOfId(RenderArgs.nextEntities,
                                                  RenderArgs.entity.id)]
    IN  Pos(Lerp(RenderArgs.entity.position.x, next.position.x, progress),
            Lerp(RenderArgs.entity.position.y, next.position.y, progress))

SamePose(a, b) ==
    /\ a.ent.position = b.ent.position
    /\ a.ent.rotation = b.ent.rotation
    /\ a.extras.scale = b.extras.scale
    /\ a.extras.armExtension = b.extras.armExtension

\* C20: an action with fewer than two control points is ignored: position,
\* rotation, scale and arm extension of its entity are those rendered without
\* the action, the position being the linear interpolation at the raw progress;
\* also for a block or steal action.
C20_DegenerateActionIgnored ==
    GovernedByDegenerate =>
        /\ call.out[1].ent.position = LinearPosition(RenderArgs.p)
        /\ call.out[2].ent.position = LinearPosition(RenderArgs.q)
        /\ SamePose(call.out[1], WithoutAction(RenderArgs.p))
        /\ SamePose(call.out[2], WithoutAction(RenderArgs.q))

\* the same for every action but a player's block
C20_DegenerateActionIgnoredUnlessBlock ==
    GovernedByDegenerate
        /\ ~(RenderArgs.entity.type = "player"
                /\ RenderArgs.currentActions[Governing].type = "block")
        => C20_DegenerateActionIgnored

\* a steal with a one-point path leaves the player's pose as without the action
C20_DegenerateStealIgnored ==
    /\ GovernedByDegenerate
    /\ RenderArgs.entity.type = "player"
    /\ RenderArgs.currentActions[Governing].type = "steal"
    /\ RenderArgs.p = 50
    /\ SamePose(call.out[1], WithoutAction(50))

----------------------------------------------------------------------------
(* Playback left alone: Play has been pressed on a list of three or more    *)
(* frames, at frame i before the last with progress p, and from then on     *)
(* only animation callbacks fire and effects run.                           *)

MaxPlayed == 4      \* frames in the list that is played

PlayedFrames(n) ==
    [i \in 1..n |-> [entitiesMap |-> i, actionsMap |-> [ref |-> i, hasActions |-> TRUE]]]

InitPlayback ==
    /\ frames \in {PlayedFrames(n) : n \in 3..MaxPlayed}
    /\ currentFrameIndex \in 0..(Len(frames) - 2)
    /\ isPlaying = TRUE
    /\ isAnimationMode = TRUE
    /\ playbackSpeed \in Speeds
    /\ animationProgress \in ScrubFractions
    /\ entitiesMap = FrameAt(frames, currentFrameIndex).entitiesMap
    /\ actionsMap = FrameAt(frames, currentFrameIndex).actionsMap
    /\ viewMode = "full"
    /\ isSwitchingFrame = FALSE
    /\ animationRef = 0
    /\ rafQueue = {}
    /\ pendingEffects = [sync |-> TRUE, anim |-> TRUE]
    /\ step = Did("UserLeaves", 0)
    /\ userPresent = FALSE
    /\ ghostResult = NoResult
    /\ showGhostDefense = FALSE
    /\ render = NoRender
    /\ call = NoCall

NextPlayback ==
    \/ AnimationFrame
    \/ FlushEffects

SpecPlayback == InitPlayback /\ [][NextPlayback]_vars

----------------------------------------------------------------------------

(* Uninterrupted playback *)

\* the tick of callback cb after dt carries the progress to 1 or beyond
ReachesOne(cb, dt) == animationProgress + (dt * cb.playbackSpeed) \div 100 >= ONE

\* what a tick does to the frame index: on reaching 1 before the last frame the
\* index goes up by one and the progress is 0, otherwise the index stays
AdvancesByOne(cb, dt) ==
    /\ (ReachesOne(cb, dt) /\ currentFrameIndex < LastFrameIndex) =>
           /\ currentFrameIndex' = currentFrameIndex + 1
           /\ animationProgress' = 0
    /\ ~ReachesOne(cb, dt) => currentFrameIndex' = currentFrameIndex
    /\ currentFrameIndex' \in {currentFrameIndex, currentFrameIndex + 1}

\* C21: during uninterrupted playback every tick at which the progress reaches 1
\* at an index i before the last frame leads to index i + 1 and progress 0, every
\* other tick leaves the index alone, and no index is skipped or repeated, also
\* for ticks of a closure that is stale.
C21_IndexAdvancesByOnePerInterval ==
    [][(~userPresent /\ isPlaying /\ step'.op = "Tick") =>
           \A cb \in rafQueue, dt \in ElapsedTimes :
               Tick(cb, dt) => AdvancesByOne(cb, dt)]_vars

\* the same for ticks of a closure made for the current frame index
C21_IndexAdvancesByOneOnFreshClosure ==
    [][(~userPresent /\ isPlaying /\ step'.op = "Tick") =>
           \A cb \in rafQueue, dt \in ElapsedTimes :
               (Tick(cb, dt) /\ cb.currentFrameIndex = currentFrameIndex)
                   => AdvancesByOne(cb, dt)]_vars

\* a tick never moves the index beyond the one after its closure's
C21_StaleClosureAdvancesAtMostOnce ==
    [][(~userPresent /\ isPlaying /\ step'.op = "Tick") =>
           \A cb \in rafQueue, dt \in ElapsedTimes :
               Tick(cb, dt) => currentFrameIndex' <= cb.currentFrameIndex + 1]_vars

----------------------------------------------------------------------------
(* The governing action and the carried ball (SpecRender) *)

\* the actions of the list that player id owns with a type among types
OwnedActions(acts, id, types) ==
    {a \in 1..Len(acts) : acts[a].playerId = id /\ acts[a].type \in types}

FirstOf(indexes) ==
    IF indexes = {} THEN 0 ELSE CHOOSE a \in indexes : \A b \in indexes : a <= b

\* the governing action as stated: 0 for none
StatedGoverning(entity, acts) ==
    IF entity.type = "player" THEN FirstOf(OwnedActions(acts, entity.id, MovementTypes))
    ELSE IF entity.ownerId = NoId THEN 0
    ELSE IF OwnedActions(acts, entity.ownerId, BallTypes) # {}
    THEN FirstOf(OwnedActions(acts, entity.ownerId, BallTypes))
    ELSE FirstOf(OwnedActions(acts, entity.ownerId, MovementTypes))

HeldActions == FrameAt(render.before, currentFrameIndex).actionsMap

\* entity k of the current frame interpolated with the stated governing action
\* as its only action
RenderedAsStated(k) ==
    LET g == StatedGoverning(HeldFrom[k], HeldActions)
    IN  RenderedEntity(k, HeldFrom, HeldNext,
                       IF g = 0 THEN <<>> ELSE <<HeldActions[g]>>,
                       animationProgress).ent

\* the rendered ball, its owner among the rendered entities (0 if none), and
\* whether the owner has a pass or a shot among the live actions
BallIndex ==
    FirstOf({k \in 1..Len(render.renderedEntities) :
                 render.renderedEntities[k].ent.type = "ball"})

CarrierIndex ==
    IF BallIndex = 0 THEN 0
    ELSE IndexOfId(Ents(render.renderedEntities),
                   render.renderedEntities[BallIndex].ent.ownerId)

Carried ==
    /\ BallIndex # 0
    /\ render.renderedEntities[BallIndex].ent.ownerId # NoId
    /\ CarrierIndex # 0
    /\ OwnedActions(actionsMap, render.renderedEntities[BallIndex].ent.ownerId,
                    BallTypes) = {}

----------------------------------------------------------------------------
(* The two collision passes of a tick (SpecRender) *)

\* the player whose turn it is in the pass
TurnOf == PlayerIndexes(render.renderedEntities)[render.k]

\* the bodies rendered entity kk is tested against, in the order of the two
\* loops of resolveCollisions, and its radius
BodiesOf(kk) ==
    LET players == PlayersOf(Ents(render.renderedEntities))
        me == render.renderedEntities[kk].ent.id
        others == SelectSeq(players, LAMBDA p : p.id # me)
    IN  [i \in 1..Len(others) |->
            [position |-> others[i].position, radius |-> getPlayerRadius(others[i])]]
        \o render.ghostObstacles

RadiusOf(kk) == getPlayerRadius(render.renderedEntities[kk].ent)

\* the position c of entity kk as corrected after the first j bodies
CorrectedAfter(kk, c, j) ==
    FoldSeq(LAMBDA acc, body : PushOut(RadiusOf(kk), acc, body), c,
            SubSeq(BodiesOf(kk), 1, j), 1)

TurnBodies == BodiesOf(TurnOf)
TurnRadius == RadiusOf(TurnOf)
AfterBodies(j) == CorrectedAfter(TurnOf, render.renderedEntities[TurnOf].ent.position, j)

Slack == 3      \* allowance for rounding, in fixed-point units

\* from is moved to to along the line of centres, away from the body, to the
\* distance minDist (to within Slack)
PushedToContact(from, to, body, minDist) ==
    /\ Abs(Dist(to, body.position) - minDist) <= Slack
    /\ (to.x - from.x) * (from.x - body.position.x) >= 0
    /\ (to.y - from.y) * (from.y - body.position.y) >= 0
    /\ Abs((to.x - from.x) * (from.y - body.position.y)
               - (to.y - from.y) * (from.x - body.position.x))
           <= Slack * Dist(from, body.position)

OverlapsBody(c, body, radius) ==
    DistSq(c, body.position) < (radius + body.radius) * (radius + body.radius)

\* one turn of a pass: the player's new position is the result of the
\* corrections made one body after the other, each of them a push to contact,
\* and the turn passes to the next player of the roster, after the last one to
\* the next pass
OneTurn ==
    /\ render'.renderedEntities[TurnOf].ent.position = AfterBodies(Len(TurnBodies))
    /\ \A j \in 1..Len(TurnBodies) :
           AfterBodies(j) # AfterBodies(j - 1) =>
               PushedToContact(AfterBodies(j - 1), AfterBodies(j), TurnBodies[j],
                               TurnRadius + TurnBodies[j].radius)
    /\ IF render.k < Len(PlayerIndexes(render.renderedEntities))
       THEN render'.k = render.k + 1 /\ render'.pass = render.pass
            /\ render'.pc = "resolve"
       ELSE render'.passes = render.passes + 1
            /\ render'.pc = (IF render.pass = 1 THEN "ball" ELSE "resolve")

\* C23 as stated: every render while playing runs exactly two full collision
\* passes over all players in roster order, and each correction moves the active
\* position along the line of centres to the distance of the two radii from the
\* body.
C23_TwoPassesWheneverPlaying ==
    /\ [](render.pc \in {"ball", "overlay", "done"} /\ isPlaying => render.passes = 2)
    /\ [][(render.pc = "resolve"
              /\ Len(PlayerIndexes(render.renderedEntities)) > 0) => OneTurn]_vars

\* C23, amended: every render while playing between two frames runs exactly two
\* full collision passes over all players in roster order, and each correction
\* moves the active position along the line of centres to the distance of the
\* two radii from the body.
C23_TwoPassesOfPushesToContact ==
    /\ [](render.pc \in {"ball", "overlay", "done"} /\ isPlaying /\ Interpolating
              => render.passes = 2)
    /\ [][(render.pc = "resolve"
              /\ Len(PlayerIndexes(render.renderedEntities)) > 0) => OneTurn]_vars

\* The first player of the roster has had its turn in the first pass: it was
\* pushed from one body and later from another, and overlaps the earlier one
\* again, which the pass does not come back to.
C23_Witness ==
    /\ step.op = "ResolveStep"
    /\ render.pc = "resolve" /\ render.pass = 0 /\ render.k = 2
    /\ LET first == PlayerIndexes(render.renderedEntities)[1]
           start == render.raw[first].position
           bodies == BodiesOf(first)
       IN  /\ render.renderedEntities[first].ent.position
                  = CorrectedAfter(first, start, Len(bodies))
           /\ \E i \in 1..Len(bodies), j \in 1..Len(bodies) :
                  /\ i < j
                  /\ CorrectedAfter(first, start, i) # CorrectedAfter(first, start, i - 1)
                  /\ CorrectedAfter(first, start, j) # CorrectedAfter(first, start, j - 1)
                  /\ Dist(render.renderedEntities[first].ent.position, bodies[i].position)
                         < RadiusOf(first) + bodies[i].radius - Slack

----------------------------------------------------------------------------
(* The steal animation (SpecCall) *)

\* a matched entity governed by a steal action with at least two control points
Stealing ==
    /\ Returned("renderEntity")
    /\ GovernedByPath
    /\ RenderArgs.currentActions[Governing].type = "steal"

StealLocalProgress(progress) ==
    LocalProgress(progress, RenderArgs.currentActions[Governing].speed)

\* 0 up to 0.3, then a linear ramp that reaches 1 at 1; in thousandths
Ramp(x) == IF x <= 30 THEN 0 ELSE RDiv((x - 30) * 1000, 70)

Eased(x) == RDiv(x * x, ONE)

\* C24: for a steal action with a path of at least two points the arm extension
\* is the ramp of the speed-adjusted local progress (0 up to 0.3, then linear, 1
\* at 1), and the position is that of the path at the local progress squared.
C24_StealArmRampOnLocalProgress ==
    Stealing =>
        /\ call.out[1].extras.armExtension = Ramp(StealLocalProgress(RenderArgs.p))
        /\ call.out[2].extras.armExtension = Ramp(StealLocalProgress(RenderArgs.q))
        /\ call.out[1].ent.position
               = PathPosition(GoverningPath, Eased(StealLocalProgress(RenderArgs.p)))
        /\ call.out[2].ent.position
               = PathPosition(GoverningPath, Eased(StealLocalProgress(RenderArgs.q)))

\* the same with the ramp taken on the squared local progress
C24_StealArmRampOnEasedProgress ==
    Stealing =>
        /\ call.out[1].extras.armExtension = Ramp(Eased(StealLocalProgress(RenderArgs.p)))
        /\ call.out[2].extras.armExtension = Ramp(Eased(StealLocalProgress(RenderArgs.q)))
        /\ call.out[1].ent.position
               = PathPosition(GoverningPath, Eased(StealLocalProgress(RenderArgs.p)))
        /\ call.out[2].ent.position
               = PathPosition(GoverningPath, Eased(StealLocalProgress(RenderArgs.q)))

----------------------------------------------------------------------------
(* The stored progress *)

\* the sum animate computes from the stored progress (line 189)
Advanced(cb, dt) == animationProgress + (dt * cb.playbackSpeed) \div 100

\* C25: after any sequence of play, pause, stop, scrub, frame selection and
\* animation callbacks with positive elapsed time, the stored animationProgress
\* is at least 0 and at most 1, and a callback whose sum reaches 1 stores 0
C25_ProgressWithinUnit ==
    /\ [](animationProgress >= 0 /\ animationProgress <= ONE)
    /\ [][step'.op = "Tick" =>
              \A cb \in rafQueue, dt \in ElapsedTimes :
                  (Tick(cb, dt) /\ Advanced(cb, dt) >= ONE) => animationProgress' = 0]_vars

\* a callback has just wrapped a sum above 1 to 0 in the middle of the frame list
C25_Witness ==
    /\ step.op = "Tick"
    /\ isPlaying
    /\ currentFrameIndex = 1
    /\ animationProgress = 0

----------------------------------------------------------------------------
(* Pause, then Play *)

\* the condition under which the Play button restarts (line 1632)
Restarts == ~isAnimationMode \/ currentFrameIndex >= Len(frames) - 1

\* the Play button has been pressed in this step
Pressed == step'.op \in {"Play", "PlayWhilePlaying"}

\* C26: Play pressed in animation mode at a frame index before the last leaves the
\* index, the progress and the live state as they were and sets isPlaying, and the
\* first callback of the resumed playback starts from that progress; Play pressed
\* outside animation mode or on the last frame loads frame 0 with progress 0
C26_PlayResumesWherePaused ==
    /\ [][Pressed =>
              /\ isPlaying' /\ isAnimationMode'
              /\ IF Restarts
                 THEN /\ currentFrameIndex' = 0
                      /\ animationProgress' = 0
                      /\ entitiesMap' = FrameAt(frames, 0).entitiesMap
                      /\ actionsMap' = FrameAt(frames, 0).actionsMap
                 ELSE UNCHANGED <<currentFrameIndex, animationProgress,
                                  entitiesMap, actionsMap>>]_vars
    /\ [][(step.op = "Play" /\ step'.op = "FlushEffects") =>
              \A cb \in rafQueue' : cb.currentFrameIndex = currentFrameIndex]_vars

\* playback was paused half way through the first of two frames and has been resumed
C26_Witness ==
    /\ step.op = "Play"
    /\ Len(frames) = 2
    /\ isPlaying
    /\ currentFrameIndex = 0
    /\ animationProgress = 50

----------------------------------------------------------------------------
(* The frame list during playback *)

\* the step is an animation callback or a run of the pending effects
LoopStep == step'.op \in {"Tick", "FlushEffects"}

----------------------------------------------------------------------------
(* The frame list and the current index *)

\* C28: after any sequence of frame operations, playback controls and animation
\* callbacks the frame list is non-empty and currentFrameIndex is an index of it
C28_IndexWithinFrames ==
    /\ Len(frames) >= 1
    /\ currentFrameIndex >= 0
    /\ currentFrameIndex < Len(frames)

----------------------------------------------------------------------------
(* Edits and frame switches *)

\* the current frame holds the live entities and actions
Saved ==
    /\ FrameAt(frames, currentFrameIndex).entitiesMap = entitiesMap
    /\ FrameAt(frames, currentFrameIndex).actionsMap = actionsMap

\* nothing is playing and every effect of the last render has run
Settled == ~isPlaying /\ pendingEffects = NoEffects /\ currentFrameIndex < Len(frames)

\* C29: once the effects of a render made while not playing have run, the
\* isSwitchingFrame flag of the last switch has been consumed and the live entities
\* and actions are stored in frames[currentFrameIndex], so that the next frame
\* switch loses no edit; also after a switch that changed no state
C29_NoEditLostAcrossSwitch ==
    Settled => (~isSwitchingFrame /\ Saved)

\* the flag is consumed, but the edit is not stored
C29_EditNotSaved == Settled /\ ~isSwitchingFrame /\ ~Saved

----------------------------------------------------------------------------
(* A player and its own ghost defender (SpecCall) *)

BlockPlayers == call.args[1]

\* the first player of the block overlaps no other player
ClearOfPlayers ==
    \A j \in 2..Len(BlockPlayers) :
        DistSq(BlockPlayers[1].position, BlockPlayers[j].position)
            >= (getPlayerRadius(BlockPlayers[1]) + getPlayerRadius(BlockPlayers[j]))
                   * (getPlayerRadius(BlockPlayers[1]) + getPlayerRadius(BlockPlayers[j]))

\* the distance between the first player's raw position and its own ghost defender
OwnGhostDistSq == DistSq(BlockPlayers[1].position, call.out.ghostObstacles[1].position)

OwnReach == getPlayerRadius(BlockPlayers[1]) + ghostRadius * FP

\* C30: in the collision block of a playing render a player whose raw position
\* overlaps no other player keeps its raw position: its own ghost defender does
\* not correct it, whatever the gap and the player's radius
C30_OwnGhostNeverDisplaces ==
    (Returned("collisionBlock") /\ ClearOfPlayers) =>
        call.out.players[1].position = BlockPlayers[1].position

\* the own ghost displaces the player exactly when it lies closer than the sum of
\* the two radii without coinciding with the player
C30_OwnGhostDisplacesWithinReach ==
    (Returned("collisionBlock") /\ ClearOfPlayers) =>
        (call.out.players[1].position # BlockPlayers[1].position
            <=> (OwnGhostDistSq > 0 /\ OwnGhostDistSq < OwnReach * OwnReach))

====
